---------------------------- MODULE Spec2Model ----------------------------
(***************************************************************************)
(* whport: who owns which port.  A model of the history engine (Diff,     *)
(* Store.Load / Save / Record), of the process manager (Kill,             *)
(* GracefulKill, ForceKill, VerifyProcess) and of the two callers that    *)
(* kill a process: the `kill <port>` command and the interactive          *)
(* dashboard.                                                             *)
(*                                                                         *)
(* Strings that the code only copies are TLA+ strings.  Strings that the  *)
(* code compares, splits or folds are sequences of byte values, and the   *)
(* operators below do to them what the Go library calls do.               *)
(***************************************************************************)
EXTENDS Integers, Sequences, FiniteSets, Bags, TLC

VARIABLES
    \* ---- Diff as a function: its arguments and its result ----
    dPrev,      \* prev *Snapshot: Nil or Some(snapshot)
    dCur,       \* current []port.PortEntry
    dTs,        \* ts time.Time
    dOut,       \* the []Event returned
    dDone,      \* TRUE once Diff has returned
    \* ---- the history file and the callers of Store.Record ----
    file,       \* the file at Store.path: Absent or Present(contents)
    now,        \* the wall clock read by the callers (time.Now())
    calls,      \* the successful Record calls so far: <<[entries, ts]>>
    ret,        \* what the last Record call returned: [events, err]
    rec,        \* two concurrent invocations: [pc, entries, ts, data, events]
    \* ---- the process table, the process manager and its callers ----
    procs,      \* the operating system's processes: PID -> [alive, comm]
    sent,       \* the signals the current caller had handed to kill(2), probes left out
    mgr,        \* the RealManager call in progress
    sess,       \* the caller: kill <port>, the dashboard, or a direct call
    \* ---- one run of lsof and what the parser made of it ----
    lsofRun,    \* the invocation and the rows lsof printed: [query, port, rows]
    parsed,     \* Nil, or Some(the []PortEntry the scanner returned)
    \* ---- one call of InfoFetcher.GetInfo ----
    psRun,      \* what the three commands GetInfo runs printed: [detail, comm, children]
    fetched,    \* Nil, or Some([info, err]) once GetInfo has returned
    \* ---- the dashboard: the Bubbletea model and its commands ----
    model,      \* the Model value the last Update returned
    program,    \* the runtime: [pending (a bag of commands under way), running]
    \* ---- one run of watch --alert ----
    watch       \* runWatchAlert: [pc, flags, baselineKeys, alert, err]

diffVars == <<dPrev, dCur, dTs, dOut, dDone>>
histVars == <<file, now, calls, ret>>
raceVars == <<rec>>
killVars == <<procs, sent, mgr, sess>>
parseVars == <<lsofRun, parsed>>
infoVars == <<psRun, fetched>>
tuiVars == <<model, program>>
watchVars == <<watch>>
vars == <<dPrev, dCur, dTs, dOut, dDone, file, now, calls, ret, rec, procs, sent, mgr, sess, lsofRun, parsed,
          psRun, fetched, model, program, watch>>

-----------------------------------------------------------------------------
(* Bounds and input universes *)

\* longest entry list / snapshot handed to Diff
MaxLen == 2
\* number of Record calls made one after the other
MaxRecords == 3

Nil == <<>>
Some(x) == <<x>>

Ports == {53, 80}
\* port.TCP, port.UDP
Protocols == {"TCP", "UDP"}
\* (PID, Process, User) of the process that owns a socket
Owners == {[PID |-> 100, Process |-> "nginx", User |-> "root"],
           [PID |-> 200, Process |-> "node", User |-> "zhengda"]}

\* port.PortEntry.  The parser sets Command to the process name; the scans
\* this model feeds to the history engine are the listen-only ones.
PortEntry(p, proto, o) ==
    [Port |-> p, Protocol |-> proto, PID |-> o.PID, Process |-> o.Process,
     User |-> o.User, Command |-> o.Process, State |-> "LISTEN", FD |-> "6u"]

PortEntries == {PortEntry(p, proto, o) : p \in Ports, proto \in Protocols, o \in Owners}

SeqsUpTo(S, n) == UNION {[1..k -> S] : k \in 0..n}

\* the lists without a repeated element over S, in every order
RECURSIVE DistinctSeqs(_)
DistinctSeqs(S) ==
    {<<>>} \cup UNION {{<<e>> \o t : t \in DistinctSeqs(S \ {e})} : e \in S}

-----------------------------------------------------------------------------
(* internal/history: types *)

\* EventType constants
EventOpen == "open"
EventClose == "close"

\* the bytes of an EventType, which Go's string comparison reads
Bytes(t) ==
    IF t = EventOpen THEN <<111, 112, 101, 110>> ELSE <<99, 108, 111, 115, 101>>

\* Go's s < t on strings: bytewise lexicographic, a proper prefix is smaller
RECURSIVE StrLess(_, _)
StrLess(s, t) ==
    IF t = <<>> THEN FALSE
    ELSE IF s = <<>> THEN TRUE
    ELSE IF s[1] # t[1] THEN s[1] < t[1]
    ELSE StrLess(Tail(s), Tail(t))

\* history.SnapshotEntry built from a port.PortEntry (the loop body of
\* SnapshotFromEntries): Command, State and FD are dropped
SnapshotEntry(e) ==
    [Port |-> e.Port, Protocol |-> e.Protocol, PID |-> e.PID,
     Process |-> e.Process, User |-> e.User]

SnapshotFromEntries(entries, ts) ==
    [Timestamp |-> ts,
     Entries |-> [i \in DOMAIN entries |-> SnapshotEntry(entries[i])]]

Event(ts, type, e) ==
    [Timestamp |-> ts, Type |-> type, Port |-> e.Port, Protocol |-> e.Protocol,
     PID |-> e.PID, Process |-> e.Process, User |-> e.User]

-----------------------------------------------------------------------------
(* internal/history: Diff *)

\* fmt.Sprintf("%d/%s", port, protocol): the port is all digits, so the key
\* determines the pair and the pair the key
portKey(port, protocol) == <<port, protocol>>

snapshotEntryKey(e) == portKey(e.Port, e.Protocol)

\* the keys of a list of entries (PortEntry or SnapshotEntry)
KeysOf(s) == {portKey(s[i].Port, s[i].Protocol) : i \in DOMAIN s}

\* the map a loop `m[key(e)] = e` over s builds: a later entry with the same
\* key replaces an earlier one
BuildMap(s) ==
    [k \in KeysOf(s) |->
        s[CHOOSE i \in DOMAIN s :
            /\ portKey(s[i].Port, s[i].Protocol) = k
            /\ \A j \in DOMAIN s : portKey(s[j].Port, s[j].Protocol) = k => j <= i]]

\* prevMap: empty when prev is nil
PrevMap(prev) == IF prev = Nil THEN BuildMap(<<>>) ELSE BuildMap(prev[1].Entries)

\* OpenEvents without the `!existed` test: every current key opens
OpenEventsAll(prevMap, currMap, ts) ==
    {Event(ts, EventOpen, currMap[k]) : k \in DOMAIN currMap}

\* OpenEvents that also reports a key whose PID changed
OpenEventsPidChange(prevMap, currMap, ts) ==
    {Event(ts, EventOpen, currMap[k]) :
        k \in {x \in DOMAIN currMap :
                  x \notin DOMAIN prevMap \/ prevMap[x].PID # currMap[x].PID}}

\* the open events: keys of currMap that prevMap lacks
OpenEvents(prevMap, currMap, ts) ==
    {Event(ts, EventOpen, currMap[k]) : k \in (DOMAIN currMap) \ (DOMAIN prevMap)}

\* the close events: keys of prevMap that currMap lacks
CloseEvents(prevMap, currMap, ts) ==
    {Event(ts, EventClose, prevMap[k]) : k \in (DOMAIN prevMap) \ (DOMAIN currMap)}

\* EventTypeLess by the order in which the constants are declared
EventTypeLessDeclared(a, b) == a = EventOpen /\ b = EventClose

\* the less function given to sort.Slice
EventTypeLess(a, b) == StrLess(Bytes(a), Bytes(b))

EventLess(a, b) ==
    IF a.Port # b.Port THEN a.Port < b.Port ELSE EventTypeLess(a.Type, b.Type)

\* sort.Slice over events appended in map-iteration order: Go fixes neither
\* the iteration order of a map nor the order in which sort.Slice leaves
\* elements that compare equal, so every arrangement with no inversion is a
\* possible result
RECURSIVE SortSlice(_)
SortSlice(S) ==
    IF S = {} THEN {<<>>}
    ELSE UNION {{<<e>> \o t : t \in SortSlice(S \ {e})} :
                   e \in {x \in S : \A y \in S : ~EventLess(y, x)}}

\* Diff(prev, current, ts): the set of event lists a call may return
Diff(prev, current, ts) ==
    LET prevMap == PrevMap(prev)
        currMap == BuildMap(current)
    IN  SortSlice(OpenEvents(prevMap, currMap, ts) \cup CloseEvents(prevMap, currMap, ts))

-----------------------------------------------------------------------------
(* internal/history: Store *)

\* &Data{}: no snapshot, no events
EmptyData == [LastSnapshot |-> Nil, Events |-> <<>>]

\* json.MarshalIndent(data): the object written to the file.  last_snapshot
\* has omitempty, so a nil pointer leaves the key out
Marshal(data) ==
    IF data.LastSnapshot = Nil
    THEN [events |-> data.Events]
    ELSE [last_snapshot |-> data.LastSnapshot[1], events |-> data.Events]

\* Unmarshal with a struct tag that does not match the key written
UnmarshalOtherTag(raw) == [LastSnapshot |-> Nil, Events |-> raw.events]

\* json.Unmarshal(raw, &data): a missing last_snapshot key leaves the pointer nil
Unmarshal(raw) ==
    [LastSnapshot |-> IF "last_snapshot" \in DOMAIN raw THEN Some(raw.last_snapshot) ELSE Nil,
     Events |-> raw.events]

\* file contents that are no JSON document: other text, and nothing at all
CorruptContents == {[text |-> "not json"], [text |-> ""]}

\* whether json.Unmarshal(raw, &data) returns nil: raw is a JSON object (the
\* documents written here all carry the events key)
Parses(raw) == "events" \in DOMAIN raw

\* Load that takes a file it cannot parse for an empty history
LoadCorruptAsEmpty(f) ==
    IF f = Nil \/ ~Parses(f[1]) THEN [data |-> EmptyData, err |-> "none"]
    ELSE [data |-> Unmarshal(f[1]), err |-> "none"]

\* Store.Load on a file that is absent (Nil) or present (Some(contents)); with
\* an error the data returned is nil, written here as the empty Data
Load(f) ==
    IF f = Nil THEN [data |-> EmptyData, err |-> "none"]
    ELSE IF ~Parses(f[1]) THEN [data |-> EmptyData, err |-> "failed to parse history file"]
    ELSE [data |-> Unmarshal(f[1]), err |-> "none"]

\* data.Events = events: the new events replace the log
ReplaceEvents(old, events) == events

\* data.Events = append(events, data.Events...): the new events go first
PrependEvents(old, events) == events \o old

\* data.Events = append(data.Events, events...)
AppendEvents(old, events) == old \o events

\* Record that keeps the snapshot the file already holds
RecordedKeepsSnapshot(data, entries, ts, events) ==
    [LastSnapshot |-> IF data.LastSnapshot = Nil THEN Some(SnapshotFromEntries(entries, ts))
                      ELSE data.LastSnapshot,
     Events |-> AppendEvents(data.Events, events)]

\* the Data that Record hands to Save
Recorded(data, entries, ts, events) ==
    [LastSnapshot |-> Some(SnapshotFromEntries(entries, ts)),
     Events |-> AppendEvents(data.Events, events)]

\* a write that keeps the events the file holds and adds the new ones of raw
WriteFileKeepingLog(cur, raw) ==
    IF cur = Nil THEN Some(raw)
    ELSE Some([raw EXCEPT !.events =
                  cur[1].events \o
                  SelectSeq(raw.events,
                            LAMBDA e : \A i \in DOMAIN cur[1].events : cur[1].events[i] # e)])

\* os.WriteFile(path, raw, 0o644) over a file holding cur: the file is
\* truncated and holds raw afterwards
WriteFile(cur, raw) == Some(raw)

\* the event log in the file, as persisted
PersistedEvents == IF file = Nil THEN <<>> ELSE file[1].events

-----------------------------------------------------------------------------
(* Diff as a function: arguments drawn from the universe, one call *)

SnapshotEntries == {SnapshotEntry(e) : e \in PortEntries}

\* the values the variables of the other parts keep while one part runs
DiffIdle ==
    /\ dPrev = Nil /\ dCur = <<>> /\ dTs = 0 /\ dOut = <<>> /\ dDone = FALSE

HistIdle ==
    /\ file = Nil /\ now = 0 /\ calls = <<>> /\ ret = [events |-> <<>>, err |-> "none"]

RaceIdle == rec = <<>>

KillIdle == procs = <<>> /\ sent = <<>> /\ mgr = <<>> /\ sess = <<>>

ParseIdle == lsofRun = <<>> /\ parsed = <<>>

InfoIdle == psRun = <<>> /\ fetched = <<>>

TuiIdle == model = <<>> /\ program = <<>>

WatchIdle == watch = <<>>

InitDiff ==
    /\ dPrev \in {Nil} \cup
          {Some([Timestamp |-> 0, Entries |-> s]) : s \in SeqsUpTo(SnapshotEntries, MaxLen)}
    /\ dCur \in SeqsUpTo(PortEntries, MaxLen)
    /\ dTs = 1
    /\ dOut = <<>>
    /\ dDone = FALSE
    /\ HistIdle
    /\ RaceIdle
    /\ KillIdle
    /\ ParseIdle /\ InfoIdle /\ TuiIdle /\ WatchIdle

DiffCall ==
    /\ ~dDone
    /\ \E out \in Diff(dPrev, dCur, dTs) : dOut' = out
    /\ dDone' = TRUE
    /\ UNCHANGED <<dPrev, dCur, dTs>>
    /\ UNCHANGED <<histVars, raceVars, killVars, parseVars, infoVars, tuiVars, watchVars>>

NextDiff == DiffCall

SpecDiff == InitDiff /\ [][NextDiff]_vars

-----------------------------------------------------------------------------
(* Store.Record called again and again by one caller (history record) *)

\* the listeners the scans report: two sockets of one process on port 53, and
\* the TCP one taken over by another process
HistEntries ==
    {PortEntry(53, "TCP", [PID |-> 100, Process |-> "nginx", User |-> "root"]),
     PortEntry(53, "UDP", [PID |-> 100, Process |-> "nginx", User |-> "root"]),
     PortEntry(53, "TCP", [PID |-> 200, Process |-> "node", User |-> "zhengda"])}

RecordInputs == DistinctSeqs(HistEntries)

InitRecord ==
    /\ file = Nil
    /\ now = 0
    /\ calls = <<>>
    /\ ret = [events |-> <<>>, err |-> "none"]
    /\ DiffIdle
    /\ RaceIdle
    /\ KillIdle
    /\ ParseIdle /\ InfoIdle /\ TuiIdle /\ WatchIdle

\* Record(entries, time.Now()) returning (events, nil)
RecordOk(entries) ==
    /\ now < MaxRecords
    /\ now' = now + 1
    /\ LET ld == Load(file)
       IN  /\ ld.err = "none"
           /\ \E events \in Diff(ld.data.LastSnapshot, entries, now') :
                 /\ file' = WriteFile(file, Marshal(Recorded(ld.data, entries, now', events)))
                 /\ ret' = [events |-> events, err |-> "none"]
    /\ calls' = Append(calls, [entries |-> entries, ts |-> now'])
    /\ UNCHANGED <<diffVars, raceVars, killVars, parseVars, infoVars, tuiVars, watchVars>>

\* Record whose Save fails (the directory cannot be created, the file cannot
\* be opened for writing): (nil, error), the file as it was
RecordSaveFails(entries) ==
    /\ now < MaxRecords
    /\ now' = now + 1
    /\ Load(file).err = "none"
    /\ ret' = [events |-> <<>>, err |-> "save"]
    /\ UNCHANGED <<file, calls>>
    /\ UNCHANGED <<diffVars, raceVars, killVars, parseVars, infoVars, tuiVars, watchVars>>

NextRecord ==
    \/ \E entries \in RecordInputs : RecordOk(entries)
    \/ \E entries \in RecordInputs : RecordSaveFails(entries)

SpecRecord == InitRecord /\ [][NextRecord]_vars

-----------------------------------------------------------------------------
(* Two invocations of Store.Record on the same file, each in its own      *)
(* process: the file is read in one step and written in a later one       *)

Recorders == {1, 2}

\* the number of file operations made so far
FileOps ==
    Cardinality({r \in Recorders : rec[r].pc # "idle"}) +
    Cardinality({r \in Recorders : rec[r].pc \in {"done", "failed"}})

\* the file is absent, or holds what one earlier call (of at most one entry)
\* left
InitRace ==
    /\ \/ file = Nil /\ calls = <<>>
       \/ \E entries \in {s \in RecordInputs : Len(s) <= 1} :
             /\ calls = <<[entries |-> entries, ts |-> 0]>>
             /\ \E events \in Diff(Nil, entries, 0) :
                   file = WriteFile(Nil, Marshal(Recorded(EmptyData, entries, 0, events)))
    /\ now = 0
    /\ ret = [events |-> <<>>, err |-> "none"]
    /\ rec = [r \in Recorders |->
                [pc |-> "idle", entries |-> <<>>, ts |-> 0, data |-> EmptyData,
                 events |-> <<>>, loadAt |-> 0, saveAt |-> 0]]
    /\ DiffIdle
    /\ KillIdle
    /\ ParseIdle /\ InfoIdle /\ TuiIdle /\ WatchIdle

\* Record up to the call of Save: s.Load(), Diff, append, new snapshot
RaceLoad(r, entries) ==
    /\ rec[r].pc = "idle"
    /\ now' = now + 1
    /\ LET ld == Load(file)
       IN  /\ ld.err = "none"
           /\ \E events \in Diff(ld.data.LastSnapshot, entries, now') :
                 rec' = [rec EXCEPT ![r] =
                            [pc |-> "loaded", entries |-> entries, ts |-> now',
                             data |-> Recorded(ld.data, entries, now', events),
                             events |-> events, loadAt |-> FileOps + 1, saveAt |-> 0]]
    /\ UNCHANGED <<file, calls, ret>>
    /\ UNCHANGED <<diffVars, killVars, parseVars, infoVars, tuiVars, watchVars>>

\* s.Save(data) succeeding, and Record returning (events, nil)
RaceSave(r) ==
    /\ rec[r].pc = "loaded"
    /\ file' = WriteFile(file, Marshal(rec[r].data))
    /\ rec' = [rec EXCEPT ![r].pc = "done", ![r].saveAt = FileOps + 1]
    /\ UNCHANGED <<now, calls, ret>>
    /\ UNCHANGED <<diffVars, killVars, parseVars, infoVars, tuiVars, watchVars>>

\* s.Save(data) failing, and Record returning (nil, error)
RaceSaveFails(r) ==
    /\ rec[r].pc = "loaded"
    /\ rec' = [rec EXCEPT ![r].pc = "failed", ![r].saveAt = FileOps + 1]
    /\ UNCHANGED <<file, now, calls, ret>>
    /\ UNCHANGED <<diffVars, killVars, parseVars, infoVars, tuiVars, watchVars>>

NextRace ==
    \/ \E r \in Recorders, entries \in RecordInputs : RaceLoad(r, entries)
    \/ \E r \in Recorders : RaceSave(r)
    \/ \E r \in Recorders : RaceSaveFails(r)

SpecRace == InitRace /\ [][NextRace]_vars

-----------------------------------------------------------------------------
(* Properties of Diff (SpecDiff) *)

DiffPrevKeys ==
    IF dPrev = Nil THEN {}
    ELSE {<<dPrev[1].Entries[i].Port, dPrev[1].Entries[i].Protocol>> :
             i \in DOMAIN dPrev[1].Entries}

DiffCurKeys == {<<dCur[i].Port, dCur[i].Protocol>> : i \in DOMAIN dCur}

\* the positions of dOut holding an event of the given type and key
DiffEventsAt(type, k) ==
    {i \in DOMAIN dOut : dOut[i].Type = type /\ <<dOut[i].Port, dOut[i].Protocol>> = k}

\* C5: Diff returns exactly one open event per key of keys(C) \ keys(P),
\* exactly one close event per key of keys(P) \ keys(C) and nothing else, so
\* as many events as the symmetric difference has keys; a key repeated inside
\* C or P counts once.
C5_DiffSymmetricDifference ==
    dDone =>
        /\ \A k \in DiffCurKeys \ DiffPrevKeys : Cardinality(DiffEventsAt("open", k)) = 1
        /\ \A k \in DiffPrevKeys \ DiffCurKeys : Cardinality(DiffEventsAt("close", k)) = 1
        /\ \A i \in DOMAIN dOut :
              LET k == <<dOut[i].Port, dOut[i].Protocol>>
              IN  \/ dOut[i].Type = "open" /\ k \in DiffCurKeys \ DiffPrevKeys
                  \/ dOut[i].Type = "close" /\ k \in DiffPrevKeys \ DiffCurKeys
        /\ Len(dOut) =
              Cardinality((DiffCurKeys \ DiffPrevKeys) \cup (DiffPrevKeys \ DiffCurKeys))

\* a call whose current list repeats a key, with a key opened and a key closed
C5_Witness ==
    /\ dDone
    /\ Len(dCur) > Cardinality(DiffCurKeys)
    /\ DiffCurKeys \ DiffPrevKeys # {}
    /\ DiffPrevKeys \ DiffCurKeys # {}

DiffAscendingPorts == \A i, j \in DOMAIN dOut : i < j => dOut[i].Port <= dOut[j].Port

\* C6 as stated: the events are in ascending port order and, on one port,
\* every open event precedes every close event.
C6_OpenBeforeClose ==
    dDone =>
        /\ DiffAscendingPorts
        /\ \A i, j \in DOMAIN dOut :
              (dOut[i].Port = dOut[j].Port /\ dOut[i].Type = "open" /\ dOut[j].Type = "close")
                  => i < j

\* C6 as amended: the events are in ascending port order and, on one port,
\* every close event precedes every open event (the tie is broken by comparing
\* the type strings, and "close" < "open").
C6_CloseBeforeOpen ==
    dDone =>
        /\ DiffAscendingPorts
        /\ \A i, j \in DOMAIN dOut :
              (dOut[i].Port = dOut[j].Port /\ dOut[i].Type = "close" /\ dOut[j].Type = "open")
                  => i < j

\* a result with events on two ports, and an open and a close on one port
C6_Witness ==
    /\ dDone
    /\ \E i, j \in DOMAIN dOut : dOut[i].Port # dOut[j].Port
    /\ \E i, j \in DOMAIN dOut : dOut[i].Port = dOut[j].Port /\ dOut[i].Type # dOut[j].Type

\* C7: a key present in the previous snapshot and in the current entries gets
\* no event, whatever PID, process name and user the two sides carry.
C7_NoEventForKeptKey ==
    dDone =>
        \A k \in DiffCurKeys \cap DiffPrevKeys :
            \A i \in DOMAIN dOut : <<dOut[i].Port, dOut[i].Protocol>> # k

\* a call where a kept key changed PID, process name and user
C7_Witness ==
    /\ dDone
    /\ dPrev # Nil
    /\ \E i \in DOMAIN dCur, j \in DOMAIN dPrev[1].Entries :
          LET c == dCur[i]
              q == dPrev[1].Entries[j]
          IN  /\ c.Port = q.Port /\ c.Protocol = q.Protocol
              /\ c.PID # q.PID /\ c.Process # q.Process /\ c.User # q.User

-----------------------------------------------------------------------------
(* Properties of Store.Record, calls one after the other (SpecRecord) *)

PersistedSnapshot ==
    IF file # Nil /\ "last_snapshot" \in DOMAIN file[1] THEN Some(file[1].last_snapshot) ELSE Nil

\* the logs that Diff(absent, A) ++ Diff(A, B) ++ ... can be, for the calls cs
RECURSIVE ChainLogs(_)
ChainLogs(cs) ==
    IF cs = <<>> THEN {<<>>}
    ELSE LET n == Len(cs)
             front == SubSeq(cs, 1, n - 1)
             prev == IF n = 1 THEN Nil
                     ELSE Some(SnapshotFromEntries(cs[n - 1].entries, cs[n - 1].ts))
         IN  UNION {{l \o d : d \in Diff(prev, cs[n].entries, cs[n].ts)} : l \in ChainLogs(front)}

\* C8: from an absent file, after successful calls with entries A, B, C, ...
\* the persisted log is Diff(absent, A) ++ Diff(A, B) ++ Diff(B, C) ++ ... in
\* call order and the persisted snapshot is the projection of the last entries.
C8_LogIsChainOfDiffs ==
    /\ PersistedEvents \in ChainLogs(calls)
    /\ calls = <<>> => file = Nil /\ Load(file) = [data |-> EmptyData, err |-> "none"]
    /\ calls # <<>> =>
          LET last == calls[Len(calls)]
          IN  PersistedSnapshot = Some([Timestamp |-> last.ts,
                  Entries |-> [i \in DOMAIN last.entries |->
                      [Port |-> last.entries[i].Port, Protocol |-> last.entries[i].Protocol,
                       PID |-> last.entries[i].PID, Process |-> last.entries[i].Process,
                       User |-> last.entries[i].User]]])

\* three successful calls, each of which produced events
C8_Witness ==
    /\ Len(calls) = 3
    /\ Len(PersistedEvents) >= 4
    /\ \E i, j, k \in DOMAIN PersistedEvents :
          /\ PersistedEvents[i].Timestamp = calls[1].ts
          /\ PersistedEvents[j].Timestamp = calls[2].ts
          /\ PersistedEvents[k].Timestamp = calls[3].ts

\* C9: a successful call leaves the old log as a prefix of the new one, the
\* added suffix being the events the call returned; a failed call leaves the
\* log as it was.
C9_LogOnlyGrows ==
    [][now' # now =>
          IF ret'.err = "none"
          THEN PersistedEvents' = PersistedEvents \o ret'.events
          ELSE PersistedEvents' = PersistedEvents]_vars

\* a call that returned events has appended them to a log that had some
C9_Witness ==
    /\ Len(calls) >= 2
    /\ ret.err = "none"
    /\ ret.events # <<>>
    /\ Len(PersistedEvents) > Len(ret.events)

\* C10: a successful call with the entries of the successful call before it
\* returns no event and leaves the persisted log as it was.
C10_RecordTwiceIdempotent ==
    [][(/\ now' # now
        /\ ret'.err = "none"
        /\ calls # <<>>
        /\ calls'[Len(calls')].entries = calls[Len(calls)].entries)
          => (ret'.events = <<>> /\ PersistedEvents' = PersistedEvents)]_vars

\* the same non-empty entries recorded twice in a row, on a log that has events
C10_Witness ==
    /\ Len(calls) >= 2
    /\ calls[Len(calls)].entries = calls[Len(calls) - 1].entries
    /\ calls[Len(calls)].entries # <<>>
    /\ ret = [events |-> <<>>, err |-> "none"]
    /\ PersistedEvents # <<>>

-----------------------------------------------------------------------------
(* Properties of two racing Record calls (SpecRace) *)

\* both calls returned without error, and both read the file before either
\* wrote it
RaceOverlapped ==
    /\ \A r \in Recorders : rec[r].pc = "done"
    /\ \A r, q \in Recorders : rec[r].loadAt < rec[q].saveAt

\* C4: when both calls load before either saves and both return without
\* error, the persisted log is the log both had loaded followed by the events
\* of the call that saved last: no event of the other call is in it.
C4_LostUpdate ==
    RaceOverlapped =>
        \E last, first \in Recorders :
            /\ rec[first].saveAt < rec[last].saveAt
            /\ \E l \in ChainLogs(calls) : PersistedEvents = l \o rec[last].events
            /\ \A i \in DOMAIN rec[first].events, j \in DOMAIN PersistedEvents :
                  rec[first].events[i] # PersistedEvents[j]

\* the interleaving happened and the call that saved first had produced events
C4_Witness ==
    /\ RaceOverlapped
    /\ \E first, last \in Recorders :
          /\ rec[first].saveAt < rec[last].saveAt
          /\ rec[first].events # <<>>
          /\ Len(PersistedEvents) < Len(rec[first].events) + Len(rec[last].events)

-----------------------------------------------------------------------------
(* Strings the process manager reads: sequences of characters *)

\* unicode.IsSpace on the characters ps prints around a name
IsSpace(c) == c \in {" ", "\n", "\t"}

\* strings.TrimSpace
RECURSIVE TrimSpace(_)
TrimSpace(s) ==
    IF s = <<>> THEN s
    ELSE IF IsSpace(s[1]) THEN TrimSpace(Tail(s))
    ELSE IF IsSpace(s[Len(s)]) THEN TrimSpace(SubSeq(s, 1, Len(s) - 1))
    ELSE s

\* parts := strings.Split(name, "/"); parts[len(parts)-1]
RECURSIVE LastSegment(_)
LastSegment(s) ==
    IF \A i \in DOMAIN s : s[i] # "/" THEN s
    ELSE LastSegment(Tail(s))

LowerLetters ==
    <<"a", "b", "c", "d", "e", "f", "g", "h", "i", "j", "k", "l", "m",
      "n", "o", "p", "q", "r", "s", "t", "u", "v", "w", "x", "y", "z">>

UpperLetters ==
    <<"A", "B", "C", "D", "E", "F", "G", "H", "I", "J", "K", "L", "M",
      "N", "O", "P", "Q", "R", "S", "T", "U", "V", "W", "X", "Y", "Z">>

\* unicode.ToUpper on the characters used here
ToUpperChar(c) ==
    IF \E i \in DOMAIN LowerLetters : LowerLetters[i] = c
    THEN UpperLetters[CHOOSE i \in DOMAIN LowerLetters : LowerLetters[i] = c]
    ELSE c

\* strings.ToUpper
ToUpper(s) == [i \in DOMAIN s |-> ToUpperChar(s[i])]

\* strings.TrimPrefix
TrimPrefix(s, prefix) ==
    IF Len(s) >= Len(prefix) /\ SubSeq(s, 1, Len(prefix)) = prefix
    THEN SubSeq(s, Len(prefix) + 1, Len(s))
    ELSE s

\* the case folding EqualFold applies to one character: letters that differ
\* only in case fold to the same one
Fold(c) == ToUpperChar(c)

\* strings.EqualFold
EqualFold(a, b) ==
    /\ Len(a) = Len(b)
    /\ \A i \in DOMAIN a : Fold(a[i]) = Fold(b[i])

-----------------------------------------------------------------------------
(* The operating system: processes and kill(2) *)

\* the processes ps and lsof can show: PID 1 (init / launchd) and one ordinary
\* process slot
ProcPIDs == {1, 500}

\* the PIDs whose process may exit and whose number may be taken by a new one
UserPIDs == {500}

\* the PIDs a caller of the manager may pass: also 0 (the caller's process
\* group) and -1 (every process the caller may signal)
CallPIDs == {-1, 0} \cup ProcPIDs

InitComm == <<"/", "l", "d">>

\* what ps prints as comm for the ordinary slot: a full path, the same name in
\* another case, another program whose name starts the same way, and no name
Comms == {<<"/", "s", "/", "n", "g">>, <<"N", "G">>, <<"n", "g", "x">>, <<>>}

NoProcess == [alive |-> FALSE, comm |-> <<>>]

\* syscall.Signal values the callers use, by name
Signals == {"SIGTERM", "SIGKILL", "SIGINT", "SIGHUP", "SIGUSR1", "SIGUSR2"}

\* whether kill(pid, sig) returns nil: the process exists (PID 0 and negative
\* PIDs name process groups, which here always have a member)
KillSucceeds(pid) == pid \notin ProcPIDs \/ procs[pid].alive

\* runner.Run(ctx, "ps", "-p", pid, "-o", "comm="): the name and a newline, or
\* an error when there is no such process
PsComm(pid) ==
    IF pid \in ProcPIDs /\ procs[pid].alive
    THEN [err |-> FALSE, out |-> procs[pid].comm \o <<"\n">>]
    ELSE [err |-> TRUE, out |-> <<>>]

\* the COMMAND column lsof prints for a process: its short name
LsofCommand(pid) == LastSegment(procs[pid].comm)

-----------------------------------------------------------------------------
(* internal/process: RealManager *)

\* protectedPIDs[pid] for PID 0 only
ProtectedOnlyZero(pid) == pid = 0

\* protectedPIDs[pid]
Protected(pid) == pid \in {0, 1}

\* VerifyProcess that accepts a name containing the expected one
VerifyProcessContains(psResult, expectedName) ==
    /\ ~psResult.err
    /\ TrimSpace(psResult.out) # <<>>
    /\ LET actual == LastSegment(TrimSpace(psResult.out))
       IN  \E i \in 1..Len(actual) :
              /\ i + Len(expectedName) - 1 <= Len(actual)
              /\ EqualFold(SubSeq(actual, i, i + Len(expectedName) - 1), expectedName)

\* VerifyProcess, given what the ps query returned
VerifyProcess(psResult, expectedName) ==
    /\ ~psResult.err
    /\ TrimSpace(psResult.out) # <<>>
    /\ EqualFold(LastSegment(TrimSpace(psResult.out)), expectedName)

\* 3 * time.Second and 100 * time.Millisecond, in milliseconds
GraceBudget == 3000
PollInterval == 100

NoCall ==
    [op |-> "none", pid |-> 0, sig |-> "SIGTERM", pc |-> "ret", clock |-> 0,
     probes |-> 0, signals |-> 0, err |-> "none", exited |-> FALSE]

\* a call of Kill, GracefulKill or ForceKill entering Kill
StartCall(op, pid, sig) ==
    [op |-> op, pid |-> pid, sig |-> sig, pc |-> "kill", clock |-> 0,
     probes |-> 0, signals |-> 0, err |-> "none", exited |-> FALSE]

\* the signal each entry point hands to Kill
SignalOf(op, sig) ==
    CASE op = "GracefulKill" -> "SIGTERM"
      [] op = "ForceKill" -> "SIGKILL"
      [] OTHER -> sig

\* one signal handed to syscall.Kill, with what its caller knew: the entry it
\* acted for, the name captured at scan time, the process that held the PID
\* when the attempt began and the answer of the name query, if one was made
SentRecord(delivered) ==
    [pid |-> mgr.pid, sig |-> mgr.sig, op |-> mgr.op, via |-> sess.kind, idx |-> sess.i,
     expected |-> sess.expected, attempt |-> sess.attempt, ps |-> sess.ps,
     delivered |-> delivered]

\* Kill that goes to syscall.Kill without asking IsRunning first
MgrKillNoProbe ==
    /\ mgr.op # "none" /\ mgr.pc = "kill"
    /\ IF Protected(mgr.pid)
       THEN mgr' = [mgr EXCEPT !.pc = "ret", !.err = "protected"]
       ELSE mgr' = [mgr EXCEPT !.pc = "send"]
    /\ UNCHANGED <<procs, sent, sess>>
    /\ UNCHANGED <<diffVars, histVars, raceVars, parseVars, infoVars, tuiVars, watchVars>>

\* Kill up to its first system call: the protected check, then IsRunning
MgrKill ==
    /\ mgr.op # "none" /\ mgr.pc = "kill"
    /\ IF Protected(mgr.pid)
       THEN mgr' = [mgr EXCEPT !.pc = "ret", !.err = "protected"]
       ELSE IF KillSucceeds(mgr.pid)
       THEN mgr' = [mgr EXCEPT !.pc = "send", !.probes = @ + 1]
       ELSE mgr' = [mgr EXCEPT !.pc = "ret", !.err = "not running", !.probes = @ + 1]
    /\ UNCHANGED <<procs, sent, sess>>
    /\ UNCHANGED <<diffVars, histVars, raceVars, parseVars, infoVars, tuiVars, watchVars>>

\* syscall.Kill(pid, signal) and the return of Kill; GracefulKill goes on to
\* its polling loop
MgrSend ==
    /\ mgr.op # "none" /\ mgr.pc = "send"
    /\ sent' = Append(sent, SentRecord(KillSucceeds(mgr.pid)))
    /\ IF ~KillSucceeds(mgr.pid)
       THEN mgr' = [mgr EXCEPT !.pc = "ret", !.err = "send failed", !.signals = @ + 1]
       ELSE IF mgr.op = "GracefulKill"
       THEN mgr' = [mgr EXCEPT !.pc = "poll", !.signals = @ + 1]
       ELSE mgr' = [mgr EXCEPT !.pc = "ret", !.signals = @ + 1]
    /\ UNCHANGED <<procs, sess>>
    /\ UNCHANGED <<diffVars, histVars, raceVars, parseVars, infoVars, tuiVars, watchVars>>

\* GracefulKill that gives up at the deadline without the last IsRunning
MgrPollNoLastProbe ==
    /\ mgr.op = "GracefulKill" /\ mgr.pc = "poll"
    /\ IF mgr.clock < GraceBudget
       THEN IF ~KillSucceeds(mgr.pid)
            THEN mgr' = [mgr EXCEPT !.pc = "ret", !.exited = TRUE, !.probes = @ + 1]
            ELSE mgr' = [mgr EXCEPT !.pc = "sleep", !.probes = @ + 1]
       ELSE mgr' = [mgr EXCEPT !.pc = "ret", !.exited = FALSE]
    /\ UNCHANGED <<procs, sent, sess>>
    /\ UNCHANGED <<diffVars, histVars, raceVars, parseVars, infoVars, tuiVars, watchVars>>

\* GracefulKill that sends SIGKILL itself when the process outlives the budget
MgrPollEscalates ==
    /\ mgr.op = "GracefulKill" /\ mgr.pc = "poll"
    /\ IF mgr.clock < GraceBudget
       THEN /\ IF ~KillSucceeds(mgr.pid)
               THEN mgr' = [mgr EXCEPT !.pc = "ret", !.exited = TRUE, !.probes = @ + 1]
               ELSE mgr' = [mgr EXCEPT !.pc = "sleep", !.probes = @ + 1]
            /\ sent' = sent
       ELSE IF KillSucceeds(mgr.pid)
            THEN /\ mgr' = [mgr EXCEPT !.pc = "ret", !.exited = TRUE, !.probes = @ + 1,
                                       !.signals = @ + 1]
                 /\ sent' = Append(sent, [pid |-> mgr.pid, sig |-> "SIGKILL", op |-> mgr.op,
                                          via |-> sess.kind, idx |-> sess.i,
                                          expected |-> sess.expected,
                                          attempt |-> sess.attempt, ps |-> sess.ps,
                                          delivered |-> TRUE])
            ELSE /\ mgr' = [mgr EXCEPT !.pc = "ret", !.exited = TRUE, !.probes = @ + 1]
                 /\ sent' = sent
    /\ UNCHANGED <<procs, sess>>
    /\ UNCHANGED <<diffVars, histVars, raceVars, parseVars, infoVars, tuiVars, watchVars>>

\* GracefulKill's loop condition and body up to the sleep: the deadline test,
\* then IsRunning; past the deadline, the last IsRunning.  The clock counts
\* the milliseconds since the deadline was set
MgrPoll ==
    /\ mgr.op = "GracefulKill" /\ mgr.pc = "poll"
    /\ IF mgr.clock < GraceBudget
       THEN IF ~KillSucceeds(mgr.pid)
            THEN mgr' = [mgr EXCEPT !.pc = "ret", !.exited = TRUE, !.probes = @ + 1]
            ELSE mgr' = [mgr EXCEPT !.pc = "sleep", !.probes = @ + 1]
       ELSE mgr' = [mgr EXCEPT !.pc = "ret", !.exited = ~KillSucceeds(mgr.pid),
                               !.probes = @ + 1]
    /\ UNCHANGED <<procs, sent, sess>>
    /\ UNCHANGED <<diffVars, histVars, raceVars, parseVars, infoVars, tuiVars, watchVars>>

\* a sleep after which the loop sees the same time as before
MgrSleepNoTime ==
    /\ mgr.op = "GracefulKill" /\ mgr.pc = "sleep"
    /\ mgr' = [mgr EXCEPT !.pc = "poll"]
    /\ UNCHANGED <<procs, sent, sess>>
    /\ UNCHANGED <<diffVars, histVars, raceVars, parseVars, infoVars, tuiVars, watchVars>>

\* time.Sleep(100 * time.Millisecond) returns; it is taken to last the
\* interval exactly
MgrSleep ==
    /\ mgr.op = "GracefulKill" /\ mgr.pc = "sleep"
    /\ mgr' = [mgr EXCEPT !.pc = "poll", !.clock = @ + PollInterval]
    /\ UNCHANGED <<procs, sent, sess>>
    /\ UNCHANGED <<diffVars, histVars, raceVars, parseVars, infoVars, tuiVars, watchVars>>

\* the process in an ordinary slot exits
ProcExit(pid) ==
    /\ procs[pid].alive
    /\ procs' = [procs EXCEPT ![pid] = NoProcess]
    /\ UNCHANGED <<sent, mgr, sess>>
    /\ UNCHANGED <<diffVars, histVars, raceVars, parseVars, infoVars, tuiVars, watchVars>>

\* a new process is given the number of one that exited
ProcSpawn(pid, comm) ==
    /\ ~procs[pid].alive
    /\ procs' = [procs EXCEPT ![pid] = [alive |-> TRUE, comm |-> comm]]
    /\ UNCHANGED <<sent, mgr, sess>>
    /\ UNCHANGED <<diffVars, histVars, raceVars, parseVars, infoVars, tuiVars, watchVars>>

-----------------------------------------------------------------------------
(* The scanner, as far as the kill paths read it *)

\* rows of a scan held at most
MaxRows == 2

\* the port given to the kill command
PortNum == 80

\* the sockets lsof may list: a listener on the port (listed once per address
\* family), a connection of which only the remote port is the one asked for,
\* and a listener of PID 1 on a lower port
Sockets ==
    { [PID |-> 500, State |-> "LISTEN", Port |-> 80],
      [PID |-> 500, State |-> "ESTABLISHED", Port |-> 5000],
      [PID |-> 1, State |-> "LISTEN", Port |-> 22] }

\* parseLsofLine: Process is the COMMAND column, PID the second column
ScanEntry(sock) ==
    [PID |-> sock.PID, Process |-> LsofCommand(sock.PID),
     State |-> sock.State, Port |-> sock.Port]

\* the sockets of processes that exist and have a name to print
OpenSockets == {sock \in Sockets : procs[sock.PID].alive /\ LsofCommand(sock.PID) # <<>>}

\* FindByPort(port): lsof -i:port lists sockets with that local or remote port
FindByPort(portNum) ==
    { [i \in DOMAIN rows |-> ScanEntry(rows[i])] :
        rows \in SeqsUpTo({sock \in OpenSockets : sock.Port = portNum \/ sock.State = "ESTABLISHED"},
                          MaxRows) }

\* ListPorts: lsof -sTCP:LISTEN
ListPorts ==
    { [i \in DOMAIN rows |-> ScanEntry(rows[i])] :
        rows \in SeqsUpTo({sock \in OpenSockets : sock.State = "LISTEN"}, MaxRows) }

\* the ports of a list of entries
PortsOf(entries) == {entries[i].Port : i \in DOMAIN entries}

\* sort.SliceStable by Port, the default sort key
RECURSIVE SortByPort(_)
SortByPort(entries) ==
    IF entries = <<>> THEN <<>>
    ELSE LET least == CHOOSE p \in PortsOf(entries) : \A q \in PortsOf(entries) : p <= q
         IN  SelectSeq(entries, LAMBDA e : e.Port = least)
                \o SortByPort(SelectSeq(entries, LAMBDA e : e.Port # least))

-----------------------------------------------------------------------------
(* internal/cli: the kill command *)

\* values of --signal
SignalFlags ==
    {<<>>, <<"S", "I", "G", "I", "N", "T">>, <<"k", "i", "l", "l">>, <<"x">>}

parseSignal(flag) ==
    LET name == ToUpper(TrimPrefix(flag, <<"S", "I", "G">>))
    IN  CASE name \in {<<"K", "I", "L", "L">>, <<"S", "I", "G", "K", "I", "L", "L">>} -> "SIGKILL"
          [] name \in {<<"T", "E", "R", "M">>, <<"S", "I", "G", "T", "E", "R", "M">>} -> "SIGTERM"
          [] name \in {<<"I", "N", "T">>, <<"S", "I", "G", "I", "N", "T">>} -> "SIGINT"
          [] name \in {<<"H", "U", "P">>, <<"S", "I", "G", "H", "U", "P">>} -> "SIGHUP"
          [] name \in {<<"U", "S", "R", "1">>, <<"S", "I", "G", "U", "S", "R", "1">>} -> "SIGUSR1"
          [] name \in {<<"U", "S", "R", "2">>, <<"S", "I", "G", "U", "S", "R", "2">>} -> "SIGUSR2"
          [] OTHER -> "SIGTERM"

\* resolveSignal whose default is SIGKILL
resolveSignalDefaultKill(force, flag) ==
    IF force THEN "SIGKILL"
    ELSE IF flag # <<>> THEN parseSignal(flag)
    ELSE "SIGKILL"

resolveSignal(force, flag) ==
    IF force THEN "SIGKILL"
    ELSE IF flag # <<>> THEN parseSignal(flag)
    ELSE "SIGTERM"

\* the manager call runKill makes for a verified listener
KillCallFor(force, flag) ==
    LET sig == resolveSignal(force, flag)
    IN  IF force \/ sig = "SIGKILL" THEN "ForceKill"
        ELSE IF flag # <<>> THEN "Kill"
        ELSE "GracefulKill"

\* every entry the port query returned is taken for a listener
ListenersUnfiltered(entries, portNum) == entries

\* the filter of runKill: entries in LISTEN state whose port is the one asked for
Listeners(entries, portNum) ==
    SelectSeq(entries, LAMBDA e : e.State = "LISTEN" /\ e.Port = portNum)

\* no caller is running
NoSession ==
    [kind |-> "none", pc |-> "none", scan |-> <<>>, entries |-> <<>>, i |-> 0, force |-> FALSE,
     signalFlag |-> <<>>, killEntry |-> Nil, expected |-> <<>>,
     attempt |-> NoProcess, ps |-> Nil, warned |-> <<>>, err |-> "none"]

\* runKill up to its loop: the scan, the filter to LISTEN entries on the port,
\* and the error when none is left
CliStart(force, flag) ==
    /\ sess.kind = "none"
    /\ \E entries \in FindByPort(PortNum) :
         LET listeners == Listeners(entries, PortNum)
         IN  sess' = [NoSession EXCEPT
                        !.kind = "cli", !.force = force, !.signalFlag = flag,
                        !.scan = entries, !.entries = listeners, !.i = 1,
                        !.pc = IF listeners = <<>> THEN "done" ELSE "loop",
                        !.err = IF listeners = <<>> THEN "no process listening" ELSE "none"]
    /\ sent' = <<>>
    /\ UNCHANGED <<procs, mgr>>
    /\ UNCHANGED <<diffVars, histVars, raceVars, parseVars, infoVars, tuiVars, watchVars>>

\* one listener: VerifyProcess, then the warning and the next listener, or the
\* call of ForceKill, Kill or GracefulKill
CliVerify ==
    /\ sess.kind = "cli" /\ sess.pc = "loop" /\ sess.i <= Len(sess.entries)
    /\ LET e == sess.entries[sess.i]
           ps == PsComm(e.PID)
       IN  IF ~VerifyProcess(ps, e.Process)
           THEN /\ sess' = [sess EXCEPT !.warned = Append(@, [idx |-> sess.i, ps |-> ps]),
                                        !.i = @ + 1]
                /\ mgr' = mgr
           ELSE /\ sess' = [sess EXCEPT !.pc = "killing", !.expected = e.Process,
                                        !.attempt = procs[e.PID], !.ps = Some(ps)]
                /\ mgr' = StartCall(KillCallFor(sess.force, sess.signalFlag), e.PID,
                                    SignalOf(KillCallFor(sess.force, sess.signalFlag),
                                             resolveSignal(sess.force, sess.signalFlag)))
    /\ UNCHANGED <<procs, sent>>
    /\ UNCHANGED <<diffVars, histVars, raceVars, parseVars, infoVars, tuiVars, watchVars>>

\* the manager call returns into the loop: an error ends the command
CliKillReturn ==
    /\ sess.kind = "cli" /\ sess.pc = "killing" /\ mgr.op # "none" /\ mgr.pc = "ret"
    /\ sess' = IF mgr.err # "none"
               THEN [sess EXCEPT !.pc = "done", !.err = mgr.err]
               ELSE [sess EXCEPT !.pc = "loop", !.i = @ + 1]
    /\ mgr' = NoCall
    /\ UNCHANGED <<procs, sent>>
    /\ UNCHANGED <<diffVars, histVars, raceVars, parseVars, infoVars, tuiVars, watchVars>>

\* the loop is over, or the command failed: the process ends
CliExit ==
    /\ sess.kind = "cli"
    /\ \/ sess.pc = "done"
       \/ sess.pc = "loop" /\ sess.i > Len(sess.entries)
    /\ sess' = NoSession
    /\ sent' = <<>>
    /\ UNCHANGED <<procs, mgr>>
    /\ UNCHANGED <<diffVars, histVars, raceVars, parseVars, infoVars, tuiVars, watchVars>>

-----------------------------------------------------------------------------
(* internal/tui: the kill path of the interactive controller *)

\* the program starts in the table view with nothing scanned yet
TuiStart ==
    /\ sess.kind = "none"
    /\ sess' = [NoSession EXCEPT !.kind = "tui", !.pc = "table"]
    /\ UNCHANGED <<procs, sent, mgr>>
    /\ UNCHANGED <<diffVars, histVars, raceVars, parseVars, infoVars, tuiVars, watchVars>>

\* scanDoneMsg without error, in whatever view: the entries are replaced and
\* sorted (the filter text is empty, so every entry is shown)
TuiScanDone ==
    /\ sess.kind = "tui"
    /\ \E entries \in ListPorts : sess' = [sess EXCEPT !.entries = SortByPort(entries)]
    /\ UNCHANGED <<procs, sent, mgr>>
    /\ UNCHANGED <<diffVars, histVars, raceVars, parseVars, infoVars, tuiVars, watchVars>>

\* "K" in the table view with the cursor on row idx
TuiPressK(idx) ==
    /\ sess.kind = "tui" /\ sess.pc = "table"
    /\ idx \in DOMAIN sess.entries
    /\ sess' = [sess EXCEPT !.killEntry = Some(sess.entries[idx]), !.pc = "confirm"]
    /\ UNCHANGED <<procs, sent, mgr>>
    /\ UNCHANGED <<diffVars, histVars, raceVars, parseVars, infoVars, tuiVars, watchVars>>

\* "y" or "f" in the confirm view: doKill calls GracefulKill or ForceKill with
\* the PID of the remembered entry
TuiConfirm(force) ==
    /\ sess.kind = "tui" /\ sess.pc = "confirm" /\ sess.killEntry # Nil
    /\ mgr.op = "none"
    /\ LET e == sess.killEntry[1]
           op == IF force THEN "ForceKill" ELSE "GracefulKill"
       IN  /\ sess' = [sess EXCEPT !.pc = "killing", !.force = force,
                                   !.expected = e.Process,
                                   !.attempt = procs[e.PID], !.ps = Nil]
           /\ mgr' = StartCall(op, e.PID, SignalOf(op, "SIGTERM"))
    /\ sent' = <<>>
    /\ UNCHANGED procs
    /\ UNCHANGED <<diffVars, histVars, raceVars, parseVars, infoVars, tuiVars, watchVars>>

\* "n", "N" or "esc" in the confirm view
TuiCancel ==
    /\ sess.kind = "tui" /\ sess.pc = "confirm"
    /\ sess' = [sess EXCEPT !.pc = "table", !.killEntry = Nil]
    /\ UNCHANGED <<procs, sent, mgr>>
    /\ UNCHANGED <<diffVars, histVars, raceVars, parseVars, infoVars, tuiVars, watchVars>>

\* killDoneMsg: the error of the call, or the one doKill makes when a graceful
\* kill did not exit, is kept and the result view shown
TuiKillDone ==
    /\ sess.kind = "tui" /\ sess.pc = "killing" /\ mgr.op # "none" /\ mgr.pc = "ret"
    /\ sess' = [sess EXCEPT !.pc = "result",
                            !.err = IF mgr.err # "none" THEN mgr.err
                                    ELSE IF mgr.op = "GracefulKill" /\ ~mgr.exited
                                    THEN "did not exit"
                                    ELSE "none"]
    /\ mgr' = NoCall
    /\ UNCHANGED <<procs, sent>>
    /\ UNCHANGED <<diffVars, histVars, raceVars, parseVars, infoVars, tuiVars, watchVars>>

\* "esc", "enter" or "backspace" in the result view
TuiAcknowledge ==
    /\ sess.kind = "tui" /\ sess.pc = "result"
    /\ sess' = [sess EXCEPT !.pc = "table", !.killEntry = Nil, !.err = "none"]
    /\ UNCHANGED <<procs, sent, mgr>>
    /\ UNCHANGED <<diffVars, histVars, raceVars, parseVars, infoVars, tuiVars, watchVars>>

\* "q" in a view that waits for a key
TuiQuit ==
    /\ sess.kind = "tui" /\ sess.pc \in {"table", "confirm", "result"}
    /\ sess' = NoSession
    /\ sent' = <<>>
    /\ UNCHANGED <<procs, mgr>>
    /\ UNCHANGED <<diffVars, histVars, raceVars, parseVars, infoVars, tuiVars, watchVars>>

-----------------------------------------------------------------------------
(* A caller of the Manager interface itself *)

ApiCall(op, pid, sig) ==
    /\ sess.kind = "none"
    /\ sess' = [NoSession EXCEPT !.kind = "api", !.pc = "killing"]
    /\ mgr' = StartCall(op, pid, SignalOf(op, sig))
    /\ sent' = <<>>
    /\ UNCHANGED procs
    /\ UNCHANGED <<diffVars, histVars, raceVars, parseVars, infoVars, tuiVars, watchVars>>

ApiReturn ==
    /\ sess.kind = "api" /\ mgr.op # "none" /\ mgr.pc = "ret"
    /\ sess' = NoSession
    /\ mgr' = NoCall
    /\ sent' = <<>>
    /\ UNCHANGED procs
    /\ UNCHANGED <<diffVars, histVars, raceVars, parseVars, infoVars, tuiVars, watchVars>>

-----------------------------------------------------------------------------
(* SpecKill: the manager, its callers and the processes around them *)

InitKill ==
    /\ \E p \in {NoProcess} \cup {[alive |-> TRUE, comm |-> c] : c \in Comms} :
          procs = [pid \in ProcPIDs |->
                     IF pid \in UserPIDs THEN p ELSE [alive |-> TRUE, comm |-> InitComm]]
    /\ sent = <<>>
    /\ mgr = NoCall
    /\ sess = NoSession
    /\ DiffIdle /\ HistIdle /\ RaceIdle /\ ParseIdle /\ InfoIdle /\ TuiIdle /\ WatchIdle

NextKill ==
    \/ \E pid \in UserPIDs : ProcExit(pid)
    \/ \E pid \in UserPIDs, c \in Comms : ProcSpawn(pid, c)
    \/ MgrKill
    \/ MgrSend
    \/ MgrPoll
    \/ MgrSleep
    \/ \E op \in {"Kill", "GracefulKill", "ForceKill"}, pid \in CallPIDs, sig \in Signals :
          ApiCall(op, pid, sig)
    \/ ApiReturn
    \/ \E force \in BOOLEAN, flag \in SignalFlags : CliStart(force, flag)
    \/ CliVerify
    \/ CliKillReturn
    \/ CliExit
    \/ TuiStart
    \/ TuiScanDone
    \/ \E idx \in 1..MaxRows : TuiPressK(idx)
    \/ \E force \in BOOLEAN : TuiConfirm(force)
    \/ TuiCancel
    \/ TuiKillDone
    \/ TuiAcknowledge
    \/ TuiQuit

SpecKill == InitKill /\ [][NextKill]_vars

-----------------------------------------------------------------------------
(* Properties of the kill paths *)

\* C1: a call of Kill, GracefulKill or ForceKill for PID 0 or PID 1 makes no
\* liveness probe and sends no signal, and returns the protected-PID error,
\* whatever the signal; no signal is ever handed to kill(2) for PID 0 or 1.
C1_ProtectedPidRefused ==
    /\ (mgr.op # "none" /\ mgr.pid \in {0, 1}) =>
          /\ mgr.probes = 0
          /\ mgr.signals = 0
          /\ mgr.pc \in {"kill", "ret"}
          /\ (mgr.pc = "ret" => mgr.err = "protected" /\ ~mgr.exited)
    /\ \A k \in DOMAIN sent : sent[k].pid \notin {0, 1}

\* GracefulKill(1), with PID 1 alive, has returned the refusal
C1_Witness ==
    /\ mgr.op = "GracefulKill" /\ mgr.pid = 1 /\ procs[1].alive
    /\ mgr.pc = "ret" /\ mgr.err = "protected"

\* the process holds the name remembered for it: the last path segment of its
\* command name equals the remembered name, ignoring case
HoldsName(proc, expected) ==
    /\ proc.alive
    /\ TrimSpace(proc.comm) # <<>>
    /\ EqualFold(LastSegment(TrimSpace(proc.comm)), expected)

\* C2: on the kill command and on the confirm dialog, no signal is delivered
\* for an entry whose PID, when the attempt for it began, was no longer held
\* by a process of the name captured at scan time.
C2_NoSignalToNewOccupant ==
    \A k \in DOMAIN sent :
        (sent[k].via \in {"cli", "tui"} /\ sent[k].delivered)
            => HoldsName(sent[k].attempt, sent[k].expected)

\* the answer of the name query passes the comparison VerifyProcess is to make
NameQueryAccepts(ps, expected) ==
    /\ ~ps.err
    /\ TrimSpace(ps.out) # <<>>
    /\ EqualFold(LastSegment(TrimSpace(ps.out)), expected)

\* C3: in the kill command, every signal was sent for a listener entry whose
\* PID and scanned name VerifyProcess had just accepted (the query succeeded,
\* its output was not empty and its last path segment equals the scanned name
\* ignoring case); an entry that failed this is in the warned list with the
\* failing answer, and no signal was sent for it.
C3_SignalOnlyAfterVerify ==
    sess.kind = "cli" =>
        /\ \A k \in DOMAIN sent :
              /\ sent[k].idx \in DOMAIN sess.entries
              /\ sent[k].pid = sess.entries[sent[k].idx].PID
              /\ sent[k].expected = sess.entries[sent[k].idx].Process
              /\ sent[k].ps # Nil
              /\ NameQueryAccepts(sent[k].ps[1], sent[k].expected)
        /\ \A w \in DOMAIN sess.warned :
              /\ ~NameQueryAccepts(sess.warned[w].ps, sess.entries[sess.warned[w].idx].Process)
              /\ \A k \in DOMAIN sent : sent[k].idx # sess.warned[w].idx
        /\ (mgr.op # "none" =>
              /\ sess.ps # Nil
              /\ NameQueryAccepts(sess.ps[1], sess.entries[sess.i].Process)
              /\ mgr.pid = sess.entries[sess.i].PID)
        /\ \A j \in 1..(sess.i - 1) :
              \/ \E w \in DOMAIN sess.warned : sess.warned[w].idx = j
              \/ \E k \in DOMAIN sent : sent[k].idx = j

\* one listener was signalled after its check passed, and a later one was
\* skipped because the PID answered with another name
C3_Witness ==
    /\ sess.kind = "cli"
    /\ \E k \in DOMAIN sent : sent[k].delivered
    /\ \E w \in DOMAIN sess.warned :
          /\ ~sess.warned[w].ps.err
          /\ TrimSpace(sess.warned[w].ps.out) # <<>>

-----------------------------------------------------------------------------
(* SpecCorrupt: Store.Record and the clear command on a file that may hold *)
(* something that is no history                                            *)

InitCorrupt ==
    /\ file \in {Nil} \cup {Some(c) : c \in CorruptContents}
    /\ now = 0
    /\ calls = <<>>
    /\ ret = [events |-> <<>>, err |-> "none"]
    /\ DiffIdle
    /\ RaceIdle
    /\ KillIdle
    /\ ParseIdle /\ InfoIdle /\ TuiIdle /\ WatchIdle

\* Record whose Load fails: (nil, error) before Diff and Save are reached
RecordLoadFails(entries) ==
    /\ now < MaxRecords
    /\ now' = now + 1
    /\ Load(file).err # "none"
    /\ ret' = [events |-> <<>>, err |-> "failed to load history"]
    /\ UNCHANGED <<file, calls>>
    /\ UNCHANGED <<diffVars, raceVars, killVars, parseVars, infoVars, tuiVars, watchVars>>

\* runHistoryClear: store.Save(&history.Data{}), without a Load
HistoryClear ==
    /\ file' = WriteFile(file, Marshal(EmptyData))
    /\ UNCHANGED <<now, calls, ret>>
    /\ UNCHANGED <<diffVars, raceVars, killVars, parseVars, infoVars, tuiVars, watchVars>>

NextCorrupt ==
    \/ \E entries \in RecordInputs : RecordOk(entries)
    \/ \E entries \in RecordInputs : RecordSaveFails(entries)
    \/ \E entries \in RecordInputs : RecordLoadFails(entries)
    \/ HistoryClear

SpecCorrupt == InitCorrupt /\ [][NextCorrupt]_vars

\* C11: on a file that is present and does not parse, Load returns an error,
\* and a call of Record returns an error and no events and leaves the file
\* exactly as it was.
C11_CorruptFileKept ==
    [][(file # Nil /\ file[1] \in CorruptContents) =>
          /\ Load(file).err # "none"
          /\ (now' # now => /\ file' = file
                            /\ ret'.err # "none"
                            /\ ret'.events = <<>>)]_vars

\* Record has just failed on a file that holds text that is no JSON
C11_Witness ==
    /\ file = Some([text |-> "not json"])
    /\ now > 0
    /\ ret.err = "failed to load history"

-----------------------------------------------------------------------------
(* Properties of the manager's calls *)

\* C12: for a PID other than 0 and 1, Kill first probes with IsRunning and
\* sends nothing in that step; a failed probe ends the call with the
\* not-running error and no signal; after a successful probe the requested
\* signal is handed to kill(2) once, and the call returns an error from that
\* step exactly when the delivery failed.
C12_KillProbesThenSends ==
    [][(mgr.op # "none" /\ mgr.pid \notin {0, 1}) =>
          /\ (mgr.pc = "kill" /\ mgr' # mgr) =>
                /\ mgr'.probes = 1 /\ mgr'.signals = 0
                /\ sent' = sent
                /\ IF KillSucceeds(mgr.pid)
                   THEN mgr'.pc = "send" /\ mgr'.err = "none"
                   ELSE mgr'.pc = "ret" /\ mgr'.err = "not running"
          /\ (mgr.pc = "send" /\ mgr' # mgr) =>
                /\ mgr.probes = 1 /\ mgr.signals = 0 /\ mgr'.signals = 1
                /\ sent' = Append(sent, sent'[Len(sent')])
                /\ sent'[Len(sent')].pid = mgr.pid
                /\ sent'[Len(sent')].sig = mgr.sig
                /\ sent'[Len(sent')].delivered = KillSucceeds(mgr.pid)
                /\ (mgr'.err # "none") = ~KillSucceeds(mgr.pid)
                /\ (mgr.op = "Kill" => mgr'.pc = "ret")
          /\ (mgr.pc \in {"poll", "sleep", "ret"} /\ mgr'.op # "none" /\ mgr'.pid = mgr.pid) =>
                sent' = sent]_vars

\* Kill(500, sig) found the process running, which then exited before the
\* signal was sent: one signal handed over, not delivered, an error returned
C12_Witness ==
    /\ mgr.op = "Kill" /\ mgr.pid = 500 /\ mgr.pc = "ret"
    /\ mgr.probes = 1 /\ mgr.signals = 1
    /\ mgr.err = "send failed"
    /\ sent # <<>> /\ ~sent[Len(sent)].delivered

-----------------------------------------------------------------------------
(* SpecGrace: calls of GracefulKill that run to their end.  The call is a  *)
(* goroutine that is scheduled and whose sleeps end, so each of its steps  *)
(* is eventually taken; the processes and the caller are under no such     *)
(* obligation                                                              *)

InitGrace == InitKill

NextGrace ==
    \/ \E pid \in UserPIDs : ProcExit(pid)
    \/ \E pid \in UserPIDs, c \in Comms : ProcSpawn(pid, c)
    \/ MgrKill
    \/ MgrSend
    \/ MgrPoll
    \/ MgrSleep
    \/ \E pid \in CallPIDs : ApiCall("GracefulKill", pid, "SIGTERM")
    \/ ApiReturn

SpecGrace ==
    /\ InitGrace /\ [][NextGrace]_vars
    /\ WF_vars(MgrKill) /\ WF_vars(MgrSend) /\ WF_vars(MgrPoll) /\ WF_vars(MgrSleep)

\* GracefulKill has sent its signal and is inside its loop or its last sleep,
\* with time left or just used up, and the process is gone
GoneWithinBudget ==
    /\ mgr.op = "GracefulKill" /\ mgr.pid \in UserPIDs
    /\ mgr.pc \in {"poll", "sleep"}
    /\ mgr.pc = "sleep" \/ mgr.clock < GraceBudget
    /\ ~procs[mgr.pid].alive

\* C13 as stated: once the process has exited within the budget, GracefulKill
\* returns exited=true with less than the budget elapsed.
C13_ExitedBeforeCeiling ==
    GoneWithinBudget ~> (mgr.pc = "ret" /\ mgr.exited /\ mgr.clock < GraceBudget)

\* C13, amended: a probe of GracefulKill that finds the PID not running ends
\* the call with exited=true and no error at that very probe; for a probe of
\* the loop less than the budget has elapsed, and the last probe is made with
\* the budget elapsed in full.
C13_ExitSeenAtNextProbe ==
    [][(mgr.op = "GracefulKill" /\ mgr.pc = "poll" /\ mgr' # mgr /\ ~KillSucceeds(mgr.pid)) =>
          /\ mgr'.pc = "ret" /\ mgr'.exited /\ mgr'.err = "none"
          /\ mgr'.clock = mgr.clock
          /\ mgr'.clock <= GraceBudget
          /\ (mgr'.clock = GraceBudget) = (mgr.probes = 1 + GraceBudget \div PollInterval)]_vars

\* the process exited during the last sleep: exited=true comes from the last
\* probe, with the whole budget elapsed
C13_Witness ==
    /\ mgr.op = "GracefulKill" /\ mgr.pid \in UserPIDs
    /\ mgr.pc = "ret" /\ mgr.exited /\ mgr.clock = GraceBudget

\* C15: every call of GracefulKill returns.  It makes the probe of Kill, at
\* most one probe per 100 ms of the budget and one last probe; if Kill fails
\* it returns that error with exited=false without a probe of its own; if the
\* process never exits it returns exited=false and no error when the budget is
\* used up, after all of these probes.
C15_GracefulKillTerminates ==
    /\ (mgr.op = "GracefulKill") ~> (mgr.op = "GracefulKill" /\ mgr.pc = "ret")
    /\ [](mgr.op = "GracefulKill" =>
            /\ mgr.probes <= 1 + GraceBudget \div PollInterval + 1
            /\ (mgr.pc = "poll" => mgr.clock = PollInterval * (mgr.probes - 1))
            /\ (mgr.pc = "sleep" => mgr.clock = PollInterval * (mgr.probes - 2))
            /\ (mgr.pc = "ret" /\ mgr.err # "none" =>
                  ~mgr.exited /\ mgr.probes <= 1 /\ mgr.clock = 0)
            /\ (mgr.pc = "ret" /\ mgr.err = "none" /\ ~mgr.exited =>
                  /\ mgr.clock = GraceBudget
                  /\ mgr.probes = 1 + GraceBudget \div PollInterval + 1))

\* the process outlived the budget: exited=false, no error, 32 probes in all
C15_Witness ==
    /\ mgr.op = "GracefulKill" /\ mgr.pid \in UserPIDs
    /\ mgr.pc = "ret" /\ ~mgr.exited /\ mgr.err = "none"
    /\ mgr.clock = GraceBudget /\ mgr.probes = 32

-----------------------------------------------------------------------------
(* Properties of the kill paths, continued (SpecKill) *)

\* C14: a call of GracefulKill hands at most one signal to kill(2), and every
\* signal sent by GracefulKill is SIGTERM; in the dashboard, when a graceful
\* kill returns without the process having exited, the result view holds an
\* error and no other call of the manager is made in that step, and after a
\* graceful confirm only SIGTERM has been sent, once at most.
C14_GracefulKillNeverEscalates ==
    /\ [](/\ (mgr.op = "GracefulKill" => mgr.signals <= 1 /\ mgr.sig = "SIGTERM")
          /\ \A k \in DOMAIN sent : sent[k].op = "GracefulKill" => sent[k].sig = "SIGTERM"
          /\ (sess.kind = "tui" /\ ~sess.force) =>
                /\ Len(sent) <= 1
                /\ \A k \in DOMAIN sent : sent[k].sig = "SIGTERM")
    /\ [][(sess.kind = "tui" /\ sess.pc = "killing" /\ sess'.pc # "killing") =>
             /\ sess'.pc = "result"
             /\ mgr'.op = "none"
             /\ sent' = sent
             /\ (mgr.op = "GracefulKill" /\ ~mgr.exited) => sess'.err # "none"]_vars

\* the dashboard shows the failure of a graceful kill that ran the whole
\* budget: one SIGTERM was delivered, the process is still there
C14_Witness ==
    /\ sess.kind = "tui" /\ sess.pc = "result" /\ ~sess.force
    /\ sess.err = "did not exit"
    /\ Len(sent) = 1 /\ sent[1].sig = "SIGTERM" /\ sent[1].delivered
    /\ procs[sent[1].pid].alive

C17_DefaultIsSigterm ==
    (sess.kind = "cli" /\ ~sess.force /\ sess.signalFlag = <<>>) =>
        /\ mgr.op \in {"none", "GracefulKill"}
        /\ \A k \in DOMAIN sent : sent[k].sig = "SIGTERM" /\ sent[k].op = "GracefulKill"
        /\ \A k, l \in DOMAIN sent : sent[k].idx = sent[l].idx => k = l

\* GracefulKill has returned exited=false after the whole budget, the process
\* still runs, and the one signal it got from the command is SIGTERM
C17_Witness ==
    /\ sess.kind = "cli" /\ ~sess.force /\ sess.signalFlag = <<>>
    /\ mgr.op = "GracefulKill" /\ mgr.pc = "ret" /\ ~mgr.exited /\ mgr.err = "none"
    /\ mgr.clock = GraceBudget
    /\ Len(sent) = 1 /\ sent[1].delivered
    /\ procs[mgr.pid].alive

-----------------------------------------------------------------------------
(* internal/port: the parser of lsof output.  Text is a sequence of        *)
(* characters; positions count from 1, and 0 stands for Go's -1            *)

\* whether sub stands in s at position i
HasAt(s, i, sub) ==
    /\ i >= 1 /\ i + Len(sub) - 1 <= Len(s)
    /\ SubSeq(s, i, i + Len(sub) - 1) = sub

\* strings.Index
Index(s, sub) ==
    IF \E i \in 1..Len(s) : HasAt(s, i, sub)
    THEN CHOOSE i \in 1..Len(s) : HasAt(s, i, sub) /\ \A j \in 1..(i - 1) : ~HasAt(s, j, sub)
    ELSE 0

\* strings.LastIndex
LastIndex(s, sub) ==
    IF \E i \in 1..Len(s) : HasAt(s, i, sub)
    THEN CHOOSE i \in 1..Len(s) : HasAt(s, i, sub) /\ \A j \in (i + 1)..Len(s) : ~HasAt(s, j, sub)
    ELSE 0

\* strings.Contains
Contains(s, sub) == Index(s, sub) # 0

\* strings.Split(s, sep) for a separator of one character
RECURSIVE Split(_, _)
Split(s, sep) ==
    LET i == Index(s, <<sep>>)
    IN  IF i = 0 THEN <<s>>
        ELSE <<SubSeq(s, 1, i - 1)>> \o Split(SubSeq(s, i + 1, Len(s)), sep)

\* the first field of a text that does not start with white space: up to the
\* next white space
RECURSIVE FirstField(_)
FirstField(s) ==
    IF s = <<>> \/ IsSpace(s[1]) THEN <<>>
    ELSE <<s[1]>> \o FirstField(Tail(s))

\* strings.Fields: the maximal runs of characters that are no white space
RECURSIVE Fields(_)
Fields(s) ==
    IF s = <<>> THEN <<>>
    ELSE IF IsSpace(s[1]) THEN Fields(Tail(s))
    ELSE <<FirstField(s)>> \o Fields(SubSeq(s, Len(FirstField(s)) + 1, Len(s)))

Digits == <<"0", "1", "2", "3", "4", "5", "6", "7", "8", "9">>

IsDigit(c) == \E i \in DOMAIN Digits : Digits[i] = c

DigitValue(c) == (CHOOSE i \in DOMAIN Digits : Digits[i] = c) - 1

\* the number written by a sequence of digits
RECURSIVE Decimal(_)
Decimal(s) ==
    IF s = <<>> THEN 0
    ELSE 10 * Decimal(SubSeq(s, 1, Len(s) - 1)) + DigitValue(s[Len(s)])

\* strconv.Atoi: an optional sign and one or more digits (the numbers met here
\* are far from the range of int)
Atoi(s) ==
    LET digits == IF s # <<>> /\ s[1] \in {"+", "-"} THEN Tail(s) ELSE s
    IN  IF digits = <<>> \/ \E i \in DOMAIN digits : ~IsDigit(digits[i])
        THEN [err |-> TRUE, val |-> 0]
        ELSE [err |-> FALSE,
              val |-> IF s[1] = "-" THEN 0 - Decimal(digits) ELSE Decimal(digits)]

\* parseProtocol
parseProtocol(node) ==
    IF Contains(ToUpper(node), <<"U", "D", "P">>) THEN "UDP" ELSE "TCP"

\* the first part of parseNameField: a state in parentheses at the end is
\* taken out of the name
StripState(name) ==
    LET idx == LastIndex(name, <<"(">>)
        closeParen == LastIndex(name, <<")">>)
    IN  IF idx # 0 /\ closeParen > idx
        THEN [state |-> SubSeq(name, idx + 1, closeParen - 1),
              name |-> TrimSpace(SubSeq(name, 1, idx - 1))]
        ELSE [state |-> <<>>, name |-> name]

\* parseNameField: the port, or -1, and the state
parseNameField(name0, proto) ==
    LET stripped == StripState(name0)
        name == stripped.name
        arrow == Index(name, <<"-", ">">>)
        local == IF arrow # 0 THEN SubSeq(name, 1, arrow - 1) ELSE name
        state1 == IF arrow # 0 /\ stripped.state = <<>>
                  THEN <<"E", "S", "T", "A", "B", "L", "I", "S", "H", "E", "D">>
                  ELSE stripped.state
        colon == LastIndex(local, <<":">>)
        portStr == IF colon # 0 THEN SubSeq(local, colon + 1, Len(local)) ELSE local
        port == Atoi(portStr)
    IN  IF portStr = <<"*">> \/ port.err
        THEN [port |-> -1, state |-> <<>>]
        ELSE [port |-> port.val,
              state |-> IF state1 = <<>> THEN <<"L", "I", "S", "T", "E", "N">> ELSE state1]

-----------------------------------------------------------------------------
(* What lsof prints: rows as text, each with what the row says (the local  *)
(* and the remote port, the state lsof printed in parentheses, whether the *)
(* name has an arrow) and why the parser is to drop it, if it is           *)

\* the header line
LsofHeader ==
    <<"C", "O", "M", "M", "A", "N", "D", " ", "P", "I", "D", " ", "U", "S",
    "E", "R", " ", "F", "D", " ", "T", "Y", "P", "E", " ", "D", "E", "V",
    "I", "C", "E", " ", "S", "I", "Z", "E", "/", "O", "F", "F", " ", "N",
    "O", "D", "E", " ", "N", "A", "M", "E">>

\* a TCP listener on every address:
\*   ng 500 root 6u IPv4 0x1 0t0 TCP *:80 (LISTEN)
RowListen ==
    [text |->
        <<"n", "g", " ", "5", "0", "0", " ", "r", "o", "o", "t", " ", "6",
        "u", " ", "I", "P", "v", "4", " ", "0", "x", "1", " ", "0", "t",
        "0", " ", "T", "C", "P", " ", "*", ":", "8", "0", " ", "(", "L",
        "I", "S", "T", "E", "N", ")">>,
     cmd |-> <<"n", "g">>, pid |-> 500, localPort |-> 80, remotePort |-> 0,
     paren |-> <<"L", "I", "S", "T", "E", "N">>, arrow |-> FALSE, drop |-> ""]

\* a connection from local port 5000 to remote port 80:
\*   ng 500 root 7u IPv4 0x2 0t0 TCP 10.0.0.1:5000->10.0.0.2:80 (ESTABLISHED)
RowRemote ==
    [text |->
        <<"n", "g", " ", "5", "0", "0", " ", "r", "o", "o", "t", " ", "7",
        "u", " ", "I", "P", "v", "4", " ", "0", "x", "2", " ", "0", "t",
        "0", " ", "T", "C", "P", " ", "1", "0", ".", "0", ".", "0", ".",
        "1", ":", "5", "0", "0", "0", "-", ">", "1", "0", ".", "0", ".",
        "0", ".", "2", ":", "8", "0", " ", "(", "E", "S", "T", "A", "B",
        "L", "I", "S", "H", "E", "D", ")">>,
     cmd |-> <<"n", "g">>, pid |-> 500, localPort |-> 5000, remotePort |-> 80,
     paren |-> <<"E", "S", "T", "A", "B", "L", "I", "S", "H", "E", "D">>, arrow |-> TRUE, drop |-> ""]

\* a connection on local port 80 that the peer has closed:
\*   curl 600 u 5u IPv4 0x3 0t0 TCP 10.0.0.1:80->10.0.0.3:4000 (CLOSE_WAIT)
RowCloseWait ==
    [text |->
        <<"c", "u", "r", "l", " ", "6", "0", "0", " ", "u", " ", "5", "u",
        " ", "I", "P", "v", "4", " ", "0", "x", "3", " ", "0", "t", "0",
        " ", "T", "C", "P", " ", "1", "0", ".", "0", ".", "0", ".", "1",
        ":", "8", "0", "-", ">", "1", "0", ".", "0", ".", "0", ".", "3",
        ":", "4", "0", "0", "0", " ", "(", "C", "L", "O", "S", "E", "_",
        "W", "A", "I", "T", ")">>,
     cmd |-> <<"c", "u", "r", "l">>, pid |-> 600, localPort |-> 80, remotePort |-> 4000,
     paren |-> <<"C", "L", "O", "S", "E", "_", "W", "A", "I", "T">>, arrow |-> TRUE, drop |-> ""]

\* a UDP socket, columns padded; lsof prints no state for UDP:
\*   dns    70 root    4u  IPv4 0x4      0t0  UDP *:53
RowUdp ==
    [text |->
        <<"d", "n", "s", " ", " ", " ", " ", "7", "0", " ", "r", "o", "o",
        "t", " ", " ", " ", " ", "4", "u", " ", " ", "I", "P", "v", "4",
        " ", "0", "x", "4", " ", " ", " ", " ", " ", " ", "0", "t", "0",
        " ", " ", "U", "D", "P", " ", "*", ":", "5", "3">>,
     cmd |-> <<"d", "n", "s">>, pid |-> 70, localPort |-> 53, remotePort |-> 0,
     paren |-> <<>>, arrow |-> FALSE, drop |-> ""]

\* a TCP listener on the IPv6 loopback address:
\*   ng 500 root 8u IPv6 0x5 0t0 TCP [::1]:80 (LISTEN)
RowIPv6 ==
    [text |->
        <<"n", "g", " ", "5", "0", "0", " ", "r", "o", "o", "t", " ", "8",
        "u", " ", "I", "P", "v", "6", " ", "0", "x", "5", " ", "0", "t",
        "0", " ", "T", "C", "P", " ", "[", ":", ":", "1", "]", ":", "8",
        "0", " ", "(", "L", "I", "S", "T", "E", "N", ")">>,
     cmd |-> <<"n", "g">>, pid |-> 500, localPort |-> 80, remotePort |-> 0,
     paren |-> <<"L", "I", "S", "T", "E", "N">>, arrow |-> FALSE, drop |-> ""]

\* a row cut off after three fields:
\*   ng 500 root
RowShort ==
    [text |->
        <<"n", "g", " ", "5", "0", "0", " ", "r", "o", "o", "t">>,
     cmd |-> <<"n", "g">>, pid |-> 500, localPort |-> 0, remotePort |-> 0,
     paren |-> <<>>, arrow |-> FALSE, drop |-> "short"]

\* a row whose PID column is no number:
\*   ng abc root 6u IPv4 0x1 0t0 TCP *:80 (LISTEN)
RowBadPid ==
    [text |->
        <<"n", "g", " ", "a", "b", "c", " ", "r", "o", "o", "t", " ", "6",
        "u", " ", "I", "P", "v", "4", " ", "0", "x", "1", " ", "0", "t",
        "0", " ", "T", "C", "P", " ", "*", ":", "8", "0", " ", "(", "L",
        "I", "S", "T", "E", "N", ")">>,
     cmd |-> <<"n", "g">>, pid |-> 0, localPort |-> 80, remotePort |-> 0,
     paren |-> <<"L", "I", "S", "T", "E", "N">>, arrow |-> FALSE, drop |-> "pid"]

\* a UDP socket that is not bound: the port is *:
\*   ng 500 root 9u IPv4 0x6 0t0 UDP *:*
RowWildcard ==
    [text |->
        <<"n", "g", " ", "5", "0", "0", " ", "r", "o", "o", "t", " ", "9",
        "u", " ", "I", "P", "v", "4", " ", "0", "x", "6", " ", "0", "t",
        "0", " ", "U", "D", "P", " ", "*", ":", "*">>,
     cmd |-> <<"n", "g">>, pid |-> 500, localPort |-> 0, remotePort |-> 0,
     paren |-> <<>>, arrow |-> FALSE, drop |-> "port"]

\* a row whose port is a number below zero:
\*   ng 500 root 9u IPv4 0x7 0t0 TCP *:-1
RowNegative ==
    [text |->
        <<"n", "g", " ", "5", "0", "0", " ", "r", "o", "o", "t", " ", "9",
        "u", " ", "I", "P", "v", "4", " ", "0", "x", "7", " ", "0", "t",
        "0", " ", "T", "C", "P", " ", "*", ":", "-", "1">>,
     cmd |-> <<"n", "g">>, pid |-> 500, localPort |-> -1, remotePort |-> 0,
     paren |-> <<>>, arrow |-> FALSE, drop |-> "negative"]

\* a line of white space:
\*   (two spaces)
RowBlank ==
    [text |->
        <<" ", " ">>,
     cmd |-> <<>>, pid |-> 0, localPort |-> 0, remotePort |-> 0,
     paren |-> <<>>, arrow |-> FALSE, drop |-> "short"]

LsofRows ==
    {RowListen, RowRemote, RowCloseWait, RowUdp, RowIPv6,
     RowShort, RowBadPid, RowWildcard, RowNegative, RowBlank}

-----------------------------------------------------------------------------
(* internal/port: parseLsofLine, ParseLsofOutput and the scanner *)

\* parseLsofLine that keeps a row whose port could not be read
parseLsofLineAnyPort(line) ==
    LET fields == Fields(line)
    IN  IF Len(fields) < 9 THEN Nil
        ELSE IF Atoi(fields[2]).err THEN Nil
        ELSE LET proto == parseProtocol(fields[8])
                 nf == parseNameField(fields[9], proto)
             IN  Some([Process |-> fields[1], PID |-> Atoi(fields[2]).val,
                       User |-> fields[3], FD |-> fields[4], Protocol |-> proto,
                       Port |-> nf.port, State |-> nf.state, Command |-> fields[1]])

\* parseLsofLine: Nil for (PortEntry{}, false), Some(entry) for (entry, true)
parseLsofLine(line) ==
    LET fields == Fields(line)
    IN  IF Len(fields) < 9 THEN Nil
        ELSE IF Atoi(fields[2]).err THEN Nil
        ELSE LET proto == parseProtocol(fields[8])
                 nf == parseNameField(fields[9], proto)
             IN  IF nf.port < 0 THEN Nil
                 ELSE Some([Process |-> fields[1], PID |-> Atoi(fields[2]).val,
                            User |-> fields[3], FD |-> fields[4], Protocol |-> proto,
                            Port |-> nf.port, State |-> nf.state, Command |-> fields[1]])

\* the loop of ParseLsofOutput over lines[1:]
RECURSIVE ParseLines(_)
ParseLines(lines) ==
    IF lines = <<>> THEN <<>>
    ELSE LET line == TrimSpace(Head(lines))
         IN  IF line = <<>> THEN ParseLines(Tail(lines))
             ELSE parseLsofLine(line) \o ParseLines(Tail(lines))

\* ParseLsofOutput
ParseLsofOutput(output) ==
    LET lines == Split(output, "\n")
    IN  IF Len(lines) < 2 THEN <<>> ELSE ParseLines(Tail(lines))

\* lines of text, each ended by a newline
RECURSIVE JoinLines(_)
JoinLines(texts) ==
    IF texts = <<>> THEN <<>>
    ELSE Head(texts) \o <<"\n">> \o JoinLines(Tail(texts))

\* what lsof wrote to its standard output: nothing when it printed no header,
\* else the header and the rows
LsofOutput(run) ==
    IF ~run.header THEN <<>>
    ELSE JoinLines(<<LsofHeader>> \o [i \in DOMAIN run.rows |-> run.rows[i].text])

\* rows in one output at most
MaxLines == 2

\* the rows lsof may print for an invocation: every row for -iTCP -iUDP, the
\* TCP listeners and the UDP sockets with -sTCP:LISTEN, and with -i:port the
\* sockets whose local or remote port is the one given; broken rows anywhere
RowsFor(query, portNum) ==
    {r \in LsofRows :
        \/ r.drop # ""
        \/ query = "ListAllPorts"
        \/ query = "ListPorts" /\ ~r.arrow
        \/ query = "FindByPort" /\ (r.localPort = portNum \/ r.remotePort = portNum)}

LsofRuns ==
    UNION {{[query |-> q, port |-> 0, header |-> TRUE, rows |-> rows] :
               rows \in SeqsUpTo(RowsFor(q, 0), MaxLines)} :
           q \in {"ListAllPorts", "ListPorts"}}
    \cup
    UNION {{[query |-> "FindByPort", port |-> n, header |-> TRUE, rows |-> rows] :
               rows \in SeqsUpTo(RowsFor("FindByPort", n), MaxLines)} :
           n \in Ports}
    \cup
    {[query |-> q, port |-> 0, header |-> FALSE, rows |-> <<>>] :
        q \in {"ListAllPorts", "ListPorts"}}

InitParse ==
    /\ lsofRun \in LsofRuns
    /\ parsed = Nil
    /\ DiffIdle /\ HistIdle /\ RaceIdle /\ KillIdle /\ InfoIdle /\ TuiIdle /\ WatchIdle

\* ListPorts, ListAllPorts, FindByPort: the runner returned the output
ScanReturns ==
    /\ parsed = Nil
    /\ parsed' = Some([err |-> FALSE, entries |-> ParseLsofOutput(LsofOutput(lsofRun))])
    /\ UNCHANGED lsofRun
    /\ UNCHANGED <<diffVars, histVars, raceVars, killVars, infoVars, tuiVars, watchVars>>

\* the runner returned an error (lsof could not be run, or ended with a
\* failure status): the scanner returns it and no entries
ScanFails ==
    /\ parsed = Nil
    /\ parsed' = Some([err |-> TRUE, entries |-> <<>>])
    /\ UNCHANGED lsofRun
    /\ UNCHANGED <<diffVars, histVars, raceVars, killVars, infoVars, tuiVars, watchVars>>

NextParse == ScanReturns \/ ScanFails

SpecParse == InitParse /\ [][NextParse]_vars

-----------------------------------------------------------------------------
(* Properties of the parser and the scanner (SpecParse) *)

\* the rows of the run that are complete: nine fields or more, a number for
\* the PID, a number not below zero for the local port
KeptRows == SelectSeq(lsofRun.rows, LAMBDA r : r.drop = "")

\* the entries a scan without error returned
ParsedEntries == parsed[1].entries

\* the rows of the run that have nine fields or more, a number for the PID and
\* a number (of either sign) for the local port
NumericRows ==
    SelectSeq(lsofRun.rows, LAMBDA r : r.drop = "" \/ r.drop = "negative")

\* C18 as stated: ParseLsofOutput never fails; it skips the header and drops
\* exactly the rows with fewer than nine fields, a non-numeric PID, or a local
\* port token that is "*" or otherwise non-numeric; every other row yields one
\* entry.
C18_DropsExactlyNonNumeric ==
    (parsed # Nil /\ ~parsed[1].err) =>
        Len(ParsedEntries) = Len(NumericRows)

\* C18: whatever rows follow the header, ParseLsofOutput returns one entry for
\* each row that has nine fields or more, a numeric PID and a local port that
\* is a number not below zero, in the order of the rows, and nothing for the
\* header, for a row with fewer fields, for a row with another PID column, or
\* for a row whose port is "*", not a number, or a number below zero; an
\* output without header gives no entries.
C18_DropsExactlyBrokenRows ==
    (parsed # Nil /\ ~parsed[1].err) =>
        /\ Len(ParsedEntries) = Len(KeptRows)
        /\ \A k \in DOMAIN ParsedEntries :
              /\ ParsedEntries[k].Process = KeptRows[k].cmd
              /\ ParsedEntries[k].PID = KeptRows[k].pid
              /\ ParsedEntries[k].Port = KeptRows[k].localPort
              /\ ParsedEntries[k].Port >= 0

\* a good row next to a row whose port is a number below zero: one entry, for
\* the good row
C18_Witness ==
    /\ parsed # Nil /\ ~parsed[1].err
    /\ \E i, j \in DOMAIN lsofRun.rows :
          /\ lsofRun.rows[i].drop = "negative"
          /\ lsofRun.rows[j].drop = ""
    /\ Len(ParsedEntries) = 1

\* C19: the entry of a row that lsof printed with a state in parentheses has
\* that state; without one, the state is ESTABLISHED for a name with an arrow
\* and LISTEN otherwise; the port is the local port.
C19_StateIsThePrintedState ==
    (parsed # Nil /\ ~parsed[1].err /\ Len(ParsedEntries) = Len(KeptRows)) =>
        \A k \in DOMAIN ParsedEntries :
            /\ ParsedEntries[k].Port = KeptRows[k].localPort
            /\ ParsedEntries[k].State =
                  IF KeptRows[k].paren # <<>> THEN KeptRows[k].paren
                  ELSE IF KeptRows[k].arrow
                       THEN <<"E", "S", "T", "A", "B", "L", "I", "S", "H", "E", "D">>
                       ELSE <<"L", "I", "S", "T", "E", "N">>

\* C20: every entry FindByPort(n) returns has port n.
C20_FindByPortExactPort ==
    (lsofRun.query = "FindByPort" /\ parsed # Nil /\ ~parsed[1].err) =>
        \A k \in DOMAIN ParsedEntries : ParsedEntries[k].Port = lsofRun.port

-----------------------------------------------------------------------------
(* InfoFetcher.GetInfo: three commands and what is made of their output *)

\* strings.Join(elems, " ")
RECURSIVE Join(_)
Join(elems) ==
    IF elems = <<>> THEN <<>>
    ELSE IF Len(elems) = 1 THEN elems[1]
    ELSE elems[1] \o <<" ">> \o Join(Tail(elems))

\* strconv.ParseFloat(s, 64) on the texts ps prints for %cpu: an optional
\* sign, digits, and at most one point followed by digits.  The value is held
\* in tenths (ps prints one decimal).
ParseFloat(s) ==
    LET body == IF s # <<>> /\ s[1] \in {"+", "-"} THEN Tail(s) ELSE s
        dot == Index(body, <<".">>)
        whole == IF dot = 0 THEN body ELSE SubSeq(body, 1, dot - 1)
        frac == IF dot = 0 THEN <<>> ELSE SubSeq(body, dot + 1, Len(body))
        allDigits(t) == \A i \in DOMAIN t : IsDigit(t[i])
        tenths == 10 * Decimal(whole) + (IF frac = <<>> THEN 0 ELSE DigitValue(frac[1]))
    IN  IF whole \o frac = <<>> \/ ~allDigits(whole) \/ ~allDigits(frac)
        THEN [err |-> TRUE, val |-> 0]
        ELSE [err |-> FALSE, val |-> IF s[1] = "-" THEN 0 - tenths ELSE tenths]

\* strconv.ParseInt(s, 10, 64): as Atoi, for numbers far from the range
ParseInt(s) == Atoi(s)

WeekdayNames ==
    {<<"M", "o", "n">>, <<"T", "u", "e">>, <<"W", "e", "d">>, <<"T", "h", "u">>,
     <<"F", "r", "i">>, <<"S", "a", "t">>, <<"S", "u", "n">>}

MonthNames ==
    <<<<"J", "a", "n">>, <<"F", "e", "b">>, <<"M", "a", "r">>, <<"A", "p", "r">>,
      <<"M", "a", "y">>, <<"J", "u", "n">>, <<"J", "u", "l">>, <<"A", "u", "g">>,
      <<"S", "e", "p">>, <<"O", "c", "t">>, <<"N", "o", "v">>, <<"D", "e", "c">>>>

\* time.Time{}
ZeroTime == [year |-> 1, month |-> 1, day |-> 1, hour |-> 0, min |-> 0, sec |-> 0]

\* a number of one or two digits (day) or of exactly n digits, in lo..hi
NumberIn(s, minLen, maxLen, lo, hi) ==
    /\ Len(s) >= minLen /\ Len(s) <= maxLen
    /\ \A i \in DOMAIN s : IsDigit(s[i])
    /\ Decimal(s) >= lo /\ Decimal(s) <= hi

\* time.Parse("Mon Jan 2 15:04:05 2006", s): weekday name, month name, day,
\* clock, year, one space apart (the weekday is not compared with the date)
ParseLstart(s) ==
    LET parts == Split(s, " ")
        clock == Split(parts[4], ":")
        ok == /\ Len(parts) = 5
              /\ parts[1] \in WeekdayNames
              /\ \E i \in DOMAIN MonthNames : MonthNames[i] = parts[2]
              /\ NumberIn(parts[3], 1, 2, 1, 31)
              /\ Len(clock) = 3
              /\ NumberIn(clock[1], 2, 2, 0, 23)
              /\ NumberIn(clock[2], 2, 2, 0, 59)
              /\ NumberIn(clock[3], 2, 2, 0, 59)
              /\ NumberIn(parts[5], 4, 4, 0, 9999)
    IN  IF ~ok THEN [err |-> TRUE, val |-> ZeroTime]
        ELSE [err |-> FALSE,
              val |-> [year |-> Decimal(parts[5]),
                       month |-> CHOOSE i \in DOMAIN MonthNames : MonthNames[i] = parts[2],
                       day |-> Decimal(parts[3]),
                       hour |-> Decimal(clock[1]),
                       min |-> Decimal(clock[2]),
                       sec |-> Decimal(clock[3])]]

\* the *ProcessInfo of a failed call
NoInfo == <<>>

\* parsePsOutput: [info, err]
parsePsOutput(line) ==
    LET fields == Fields(line)
        pid == Atoi(fields[1])
        ppid == Atoi(fields[2])
        cpu == ParseFloat(fields[4])
        rss == ParseInt(fields[5])
        startTime == ParseLstart(Join(SubSeq(fields, 6, 10)))
    IN  IF Len(fields) < 11
        THEN [info |-> NoInfo, err |-> "unexpected ps output format"]
        ELSE IF pid.err THEN [info |-> NoInfo, err |-> "failed to parse PID"]
        ELSE IF ppid.err THEN [info |-> NoInfo, err |-> "failed to parse PPID"]
        ELSE [info |-> [PID |-> pid.val,
                        PPID |-> ppid.val,
                        Name |-> <<>>,
                        User |-> fields[3],
                        CPUPercent |-> IF cpu.err THEN 0 ELSE cpu.val,
                        MemRSS |-> (IF rss.err THEN 0 ELSE rss.val) * 1024,
                        StartTime |-> startTime.val,
                        Command |-> Join(SubSeq(fields, 11, Len(fields))),
                        Children |-> <<>>],
              err |-> "none"]

\* parseChildPIDs
RECURSIVE ChildPIDsOf(_)
ChildPIDsOf(lines) ==
    IF lines = <<>> THEN <<>>
    ELSE LET line == TrimSpace(lines[1])
             pid == Atoi(line)
         IN  (IF line = <<>> \/ pid.err THEN <<>> ELSE <<pid.val>>)
             \o ChildPIDsOf(Tail(lines))

parseChildPIDs(output) == ChildPIDsOf(Split(TrimSpace(output), "\n"))

\* GetInfo, given what the runner returned for the three commands; each is
\* [err, text]
GetInfo(run) ==
    LET line == TrimSpace(run.detail.text)
        parsedLine == parsePsOutput(line)
        name == TrimSpace(run.comm.text)
        withName == IF ~run.comm.err /\ name # <<>>
                    THEN [parsedLine.info EXCEPT !.Name = LastSegment(name)]
                    ELSE parsedLine.info
        withChildren == IF ~run.children.err
                        THEN [withName EXCEPT !.Children = parseChildPIDs(run.children.text)]
                        ELSE withName
    IN  IF run.detail.err
        THEN [info |-> NoInfo, err |-> "failed to get process info"]
        ELSE IF line = <<>>
        THEN [info |-> NoInfo, err |-> "process not found"]
        ELSE IF parsedLine.err # "none"
        THEN [info |-> NoInfo, err |-> "failed to parse process info"]
        ELSE [info |-> withChildren, err |-> "none"]

\* what a runner returns: an error, or the text printed
Failed == [err |-> TRUE, text |-> <<>>]

Printed(text) == [err |-> FALSE, text |-> text]

\* ps -p 500 -o pid=,ppid=,user=,%cpu=,rss=,lstart=,command=
DetailOutputs ==
    {Failed,
     \* no such process: nothing printed
     Printed(<<>>),
     Printed(<<"\n">>),
     \* a whole row
     Printed(<<" ", " ", "5", "0", "0", " ", " ", " ", " ", " ", "1", " ",
               "r", "o", "o", "t", " ", " ", " ", "0", ".", "5", " ", " ",
               "2", "0", "4", "8", " ", "T", "h", "u", " ", "F", "e", "b",
               " ", "1", "3", " ", "1", "0", ":", "3", "0", ":", "0", "0",
               " ", "2", "0", "2", "6", " ", "/", "u", "s", "r", "/", "s",
               "b", "i", "n", "/", "n", "g", " ", "-", "g", " ", "o", "n",
               "\n">>),
     \* %cpu and rss that are no numbers
     Printed(<<"5", "0", "0", " ", "1", " ", "r", "o", "o", "t", " ", "-",
               " ", "-", " ", "T", "h", "u", " ", "F", "e", "b", " ", "1",
               "3", " ", "1", "0", ":", "3", "0", ":", "0", "0", " ", "2",
               "0", "2", "6", " ", "n", "g", "\n">>),
     \* a start time in another form
     Printed(<<"5", "0", "0", " ", "1", " ", "r", "o", "o", "t", " ", "0",
               ".", "5", " ", "2", "0", "4", "8", " ", "T", "h", "u", " ",
               "1", "3", " ", "F", "e", "b", " ", "1", "0", ":", "3", "0",
               ":", "0", "0", " ", "2", "0", "2", "6", " ", "n", "g", "\n">>),
     \* a PID column that is no number
     Printed(<<"5", "?", "0", " ", "1", " ", "r", "o", "o", "t", " ", "0",
               ".", "5", " ", "2", "0", "4", "8", " ", "T", "h", "u", " ",
               "F", "e", "b", " ", "1", "3", " ", "1", "0", ":", "3", "0",
               ":", "0", "0", " ", "2", "0", "2", "6", " ", "n", "g", "\n">>),
     \* a parent PID column that is no number
     Printed(<<"5", "0", "0", " ", "-", " ", "r", "o", "o", "t", " ", "0",
               ".", "5", " ", "2", "0", "4", "8", " ", "T", "h", "u", " ",
               "F", "e", "b", " ", "1", "3", " ", "1", "0", ":", "3", "0",
               ":", "0", "0", " ", "2", "0", "2", "6", " ", "n", "g", "\n">>),
     \* a row that ends after the start time: no command
     Printed(<<"5", "0", "0", " ", "1", " ", "r", "o", "o", "t", " ", "0",
               ".", "5", " ", "2", "0", "4", "8", " ", "T", "h", "u", " ",
               "F", "e", "b", " ", "1", "3", " ", "1", "0", ":", "3", "0",
               ":", "0", "0", " ", "2", "0", "2", "6", "\n">>)}

\* ps -p 500 -o comm=
CommOutputs ==
    {Failed, Printed(<<>>), Printed(<<"/", "u", "s", "r", "/", "s", "b", "i",
                                      "n", "/", "n", "g", "\n">>), Printed(<<"n", "g",
                                                                    "\n">>)}

\* pgrep -P 500 (which ends with a failure status when there is no child)
ChildOutputs ==
    {Failed, Printed(<<>>), Printed(<<"5", "0", "1", "\n", "5", "0", "2",
                                      "\n">>), Printed(<<"5", "0",
                                                                "1", "\n",
                                                                "?", "\n">>)}

PsRuns ==
    {[pid |-> 500, detail |-> d, comm |-> c, children |-> k] :
        d \in DetailOutputs, c \in CommOutputs, k \in ChildOutputs}

InitInfo ==
    /\ psRun \in PsRuns
    /\ fetched = Nil
    /\ DiffIdle /\ HistIdle /\ RaceIdle /\ KillIdle /\ ParseIdle /\ TuiIdle /\ WatchIdle

\* GetInfo returns a *ProcessInfo
InfoReturns ==
    /\ fetched = Nil
    /\ GetInfo(psRun).err = "none"
    /\ fetched' = Some(GetInfo(psRun))
    /\ UNCHANGED psRun
    /\ UNCHANGED <<diffVars, histVars, raceVars, killVars, parseVars, tuiVars, watchVars>>

\* GetInfo returns an error
InfoFails ==
    /\ fetched = Nil
    /\ GetInfo(psRun).err # "none"
    /\ fetched' = Some(GetInfo(psRun))
    /\ UNCHANGED psRun
    /\ UNCHANGED <<diffVars, histVars, raceVars, killVars, parseVars, tuiVars, watchVars>>

NextInfo == InfoReturns \/ InfoFails

SpecInfo == InitInfo /\ [][NextInfo]_vars

\* C21: GetInfo returns an error only when the detail query failed or printed
\* no row; whatever a printed row holds, and whatever the short-name and the
\* child queries do, the call returns a *ProcessInfo.
C21_FailsOnlyWithoutRow ==
    (fetched # Nil /\ fetched[1].err # "none") =>
        (psRun.detail.err \/ TrimSpace(psRun.detail.text) = <<>>)

-----------------------------------------------------------------------------
(* internal/tui: the dashboard.  Model is the Bubbletea model; Update takes  *)
(* one message and returns the next Model and the commands to run.           *)

\* viewState
viewTable == "Table"
viewInfo == "Info"
viewKillConfirm == "KillConfirm"
viewKillResult == "KillResult"
viewFilter == "Filter"

\* sortField: sortByPort, sortByPID, sortByProcess are 0, 1, 2
sortByPort == 0
sortByPID == 1
sortByProcess == 2

\* unicode.ToLower on the characters used here
ToLowerChar(c) ==
    IF \E i \in DOMAIN UpperLetters : UpperLetters[i] = c
    THEN LowerLetters[CHOOSE i \in DOMAIN UpperLetters : UpperLetters[i] = c]
    ELSE c

\* strings.ToLower
ToLower(s) == [i \in DOMAIN s |-> ToLowerChar(s[i])]

\* the byte of a character: digits, upper case letters, lower case letters
ByteOf(c) ==
    IF \E i \in DOMAIN Digits : Digits[i] = c
    THEN 47 + (CHOOSE i \in DOMAIN Digits : Digits[i] = c)
    ELSE IF \E i \in DOMAIN UpperLetters : UpperLetters[i] = c
    THEN 64 + (CHOOSE i \in DOMAIN UpperLetters : UpperLetters[i] = c)
    ELSE IF \E i \in DOMAIN LowerLetters : LowerLetters[i] = c
    THEN 96 + (CHOOSE i \in DOMAIN LowerLetters : LowerLetters[i] = c)
    ELSE 63

\* Go's s < t on two texts
TextLess(s, t) == StrLess([i \in DOMAIN s |-> ByteOf(s[i])], [i \in DOMAIN t |-> ByteOf(t[i])])

\* fmt.Sprintf("%d", n) for n >= 0
RECURSIVE Itoa(_)
Itoa(n) ==
    IF n < 10 THEN <<Digits[n + 1]>>
    ELSE Itoa(n \div 10) \o <<Digits[(n % 10) + 1]>>

\* the entries a scan of the dashboard can return: one process listening on
\* two ports, and a second process whose name starts with a capital letter
EntryNg80 ==
    [Process |-> <<"n", "g">>, PID |-> 500, User |-> <<"r", "o", "o", "t">>,
     Port |-> 80, Command |-> <<"n", "g">>]

EntryNg443 ==
    [Process |-> <<"n", "g">>, PID |-> 500, User |-> <<"r", "o", "o", "t">>,
     Port |-> 443, Command |-> <<"n", "g">>]

EntryXo ==
    [Process |-> <<"X", "o">>, PID |-> 900, User |-> <<"m", "e">>,
     Port |-> 53, Command |-> <<"X", "o">>]

TableEntries == {EntryNg80, EntryNg443, EntryXo}

\* the less function of sortEntries
EntryLessRawNames(sortBy, a, b) ==
    IF sortBy = sortByPID THEN a.PID < b.PID
    ELSE IF sortBy = sortByProcess THEN TextLess(a.Process, b.Process)
    ELSE a.Port < b.Port

EntryLess(sortBy, a, b) ==
    IF sortBy = sortByPID THEN a.PID < b.PID
    ELSE IF sortBy = sortByProcess THEN TextLess(ToLower(a.Process), ToLower(b.Process))
    ELSE a.Port < b.Port

\* one step of a stable sort: e goes behind every element that is not greater
RECURSIVE InsertStable(_, _, _)
InsertStable(sorted, e, sortBy) ==
    IF sorted = <<>> THEN <<e>>
    ELSE IF EntryLess(sortBy, e, sorted[Len(sorted)])
         THEN InsertStable(SubSeq(sorted, 1, Len(sorted) - 1), e, sortBy)
                 \o <<sorted[Len(sorted)]>>
         ELSE sorted \o <<e>>

\* sort.SliceStable(entries, less)
RECURSIVE SliceStable(_, _)
SliceStable(entries, sortBy) ==
    IF entries = <<>> THEN <<>>
    ELSE InsertStable(SliceStable(SubSeq(entries, 1, Len(entries) - 1), sortBy),
                      entries[Len(entries)], sortBy)

\* sortEntries
sortEntries(m) == [m EXCEPT !.entries = SliceStable(m.entries, m.sortBy)]

\* the match of rebuildFiltered for a query that is not empty
Matches(e, query) ==
    \/ Contains(ToLower(e.Process), query)
    \/ Contains(ToLower(e.User), query)
    \/ Contains(ToLower(e.Command), query)
    \/ Contains(Itoa(e.Port), query)
    \/ Contains(Itoa(e.PID), query)

\* the loop of rebuildFiltered: the indices (from 0) of the entries that match
RECURSIVE MatchingIndices(_, _, _)
MatchingIndices(entries, query, i) ==
    IF i > Len(entries) THEN <<>>
    ELSE (IF query = <<>> \/ Matches(entries[i], query) THEN <<i - 1>> ELSE <<>>)
            \o MatchingIndices(entries, query, i + 1)

Max(a, b) == IF a > b THEN a ELSE b

\* visibleRows
visibleRows(m) == Max(1, m.height - 7)

\* ensureCursorVisible
ensureCursorVisible(m) ==
    LET visible == visibleRows(m)
        s1 == IF m.cursor < m.scrollOffset THEN m.cursor ELSE m.scrollOffset
        s2 == IF m.cursor >= s1 + visible THEN m.cursor - visible + 1 ELSE s1
    IN  [m EXCEPT !.scrollOffset = s2]

\* adjustScroll
adjustScroll(m) ==
    LET visible == visibleRows(m)
        s2 == ensureCursorVisible(m).scrollOffset
        maxOffset == Max(0, Len(m.filtered) - visible)
        s3 == IF s2 > maxOffset THEN maxOffset ELSE s2
        s4 == IF s3 < 0 THEN 0 ELSE s3
    IN  [m EXCEPT !.scrollOffset = s4]

\* rebuildFiltered
rebuildFilteredKeepCursor(m) ==
    adjustScroll([m EXCEPT !.filtered =
                      MatchingIndices(m.entries, ToLower(m.searchQuery), 1)])

rebuildFiltered(m) ==
    LET filtered == MatchingIndices(m.entries, ToLower(m.searchQuery), 1)
        cursor == IF m.cursor >= Len(filtered)
                  THEN Max(0, Len(filtered) - 1) ELSE m.cursor
    IN  adjustScroll([m EXCEPT !.filtered = filtered, !.cursor = cursor])

\* selectedEntry: Nil, or Some(a copy of the entry under the cursor)
selectedEntry(m) ==
    IF Len(m.filtered) = 0 \/ m.cursor < 0 \/ m.cursor >= Len(m.filtered) THEN Nil
    ELSE IF m.filtered[m.cursor + 1] >= Len(m.entries) THEN Nil
    ELSE Some(m.entries[m.filtered[m.cursor + 1] + 1])

\* the commands Update returns for the runtime to run
doScan == [op |-> "scan", pid |-> 0, process |-> <<>>, port |-> 0, force |-> FALSE]

doGetInfo(pid) == [op |-> "info", pid |-> pid, process |-> <<>>, port |-> 0, force |-> FALSE]

doKill(pid, processName, portNum, force) ==
    [op |-> "kill", pid |-> pid, process |-> processName, port |-> portNum, force |-> force]

\* tickCmd: tea.Tick that delivers one tickMsg after two seconds
tickCmd == [op |-> "tick", pid |-> 0, process |-> <<>>, port |-> 0, force |-> FALSE]

\* what Update returns: the Model, the commands (spinner.Tick left out), and
\* whether tea.Quit is among them
Result(m, cmds) == [m |-> m, cmds |-> cmds, quit |-> FALSE]

Quit(m) == [m |-> m, cmds |-> <<>>, quit |-> TRUE]

\* New: the Model before the first message
New ==
    [entries |-> <<>>, filtered |-> <<>>, cursor |-> 0, scrollOffset |-> 0,
     sortBy |-> sortByPort, searching |-> FALSE, searchQuery |-> <<>>,
     paused |-> FALSE, infoEntry |-> Nil, infoData |-> Nil, infoErr |-> "none",
     killEntry |-> Nil, killResult |-> <<>>, killErr |-> "none",
     scanning |-> TRUE, height |-> 0, currentView |-> viewTable]

\* updateTable
updateTable(m, key) ==
    IF key = "q" THEN Quit(m)
    ELSE IF key \in {"j", "down"} THEN
        IF Len(m.filtered) > 0 /\ m.cursor < Len(m.filtered) - 1
        THEN Result(ensureCursorVisible([m EXCEPT !.cursor = m.cursor + 1]), <<>>)
        ELSE Result(m, <<>>)
    ELSE IF key \in {"k", "up"} THEN
        IF m.cursor > 0
        THEN Result(ensureCursorVisible([m EXCEPT !.cursor = m.cursor - 1]), <<>>)
        ELSE Result(m, <<>>)
    ELSE IF key = "K" THEN
        IF selectedEntry(m) # Nil
        THEN Result([m EXCEPT !.killEntry = selectedEntry(m),
                              !.currentView = viewKillConfirm], <<>>)
        ELSE Result(m, <<>>)
    ELSE IF key \in {"i", "enter"} THEN
        IF selectedEntry(m) # Nil
        THEN Result([m EXCEPT !.infoEntry = selectedEntry(m), !.infoData = Nil,
                              !.infoErr = "none"],
                    <<doGetInfo(selectedEntry(m)[1].PID)>>)
        ELSE Result(m, <<>>)
    ELSE IF key = "r" THEN Result([m EXCEPT !.scanning = TRUE], <<doScan>>)
    ELSE IF key = "s" THEN
        Result(rebuildFiltered(sortEntries([m EXCEPT !.sortBy = (m.sortBy + 1) % 3])), <<>>)
    ELSE IF key = "p" THEN Result([m EXCEPT !.paused = ~m.paused], <<>>)
    ELSE IF key = "/" THEN
        Result([m EXCEPT !.currentView = viewFilter, !.searchQuery = <<>>,
                         !.searching = TRUE], <<>>)
    ELSE IF key = "esc" THEN
        IF m.searchQuery # <<>>
        THEN Result(rebuildFiltered([m EXCEPT !.searchQuery = <<>>, !.searching = FALSE]), <<>>)
        ELSE Result(m, <<>>)
    ELSE Result(m, <<>>)

\* updateInfo
updateInfo(m, key) ==
    IF key = "q" THEN Quit(m)
    ELSE IF key \in {"esc", "backspace"} THEN Result([m EXCEPT !.currentView = viewTable], <<>>)
    ELSE IF key = "K" /\ m.infoEntry # Nil
    THEN Result([m EXCEPT !.killEntry = m.infoEntry, !.currentView = viewKillConfirm], <<>>)
    ELSE Result(m, <<>>)

\* updateKillConfirm
\* the confirm key of KillConfirm reading the row under the cursor
updateKillConfirmSelectedRow(m, key) ==
    IF key \in {"y", "f"} /\ selectedEntry(m) # Nil
    THEN LET e == selectedEntry(m)[1]
         IN  Result(m, <<doKill(e.PID, e.Process, e.Port, key = "f")>>)
    ELSE IF key \in {"n", "esc", "N"}
    THEN Result([m EXCEPT !.currentView = viewTable, !.killEntry = Nil], <<>>)
    ELSE IF key = "q" THEN Quit(m)
    ELSE Result(m, <<>>)

updateKillConfirm(m, key) ==
    IF key \in {"y", "f"} /\ m.killEntry # Nil
    THEN LET e == m.killEntry[1]
         IN  Result(m, <<doKill(e.PID, e.Process, e.Port, key = "f")>>)
    ELSE IF key \in {"n", "esc", "N"}
    THEN Result([m EXCEPT !.currentView = viewTable, !.killEntry = Nil], <<>>)
    ELSE IF key = "q" THEN Quit(m)
    ELSE Result(m, <<>>)

\* updateKillResult
updateKillResultNoScanWhenPaused(m, key) ==
    IF key = "q" THEN Quit(m)
    ELSE IF key \in {"esc", "enter", "backspace"}
    THEN Result([m EXCEPT !.currentView = viewTable, !.killEntry = Nil,
                          !.killResult = <<>>, !.killErr = "none",
                          !.scanning = TRUE],
                IF m.paused THEN <<>> ELSE <<doScan>>)
    ELSE Result(m, <<>>)

updateKillResult(m, key) ==
    IF key = "q" THEN Quit(m)
    ELSE IF key \in {"esc", "enter", "backspace"}
    THEN Result([m EXCEPT !.currentView = viewTable, !.killEntry = Nil,
                          !.killResult = <<>>, !.killErr = "none",
                          !.scanning = TRUE], <<doScan>>)
    ELSE Result(m, <<>>)

\* the keys whose msg.String() is one character long
OneCharKeys ==
    {"q", "j", "k", "K", "i", "r", "s", "p", "/", "y", "f", "n", "N", "X", "4"}

\* updateFilter
updateFilterCancelKeepsText(m, key) ==
    IF key \in {"enter", "esc"}
    THEN Result(rebuildFiltered([m EXCEPT !.currentView = viewTable, !.searching = FALSE]), <<>>)
    ELSE IF key = "backspace" THEN
        IF Len(m.searchQuery) > 0
        THEN Result(rebuildFiltered([m EXCEPT !.searchQuery =
                        SubSeq(m.searchQuery, 1, Len(m.searchQuery) - 1)]), <<>>)
        ELSE Result(m, <<>>)
    ELSE IF key \in OneCharKeys
    THEN Result(rebuildFiltered([m EXCEPT !.searchQuery = m.searchQuery \o <<key>>]), <<>>)
    ELSE Result(m, <<>>)

updateFilter(m, key) ==
    IF key = "enter"
    THEN Result(rebuildFiltered([m EXCEPT !.currentView = viewTable, !.searching = FALSE]), <<>>)
    ELSE IF key = "esc"
    THEN Result(rebuildFiltered([m EXCEPT !.currentView = viewTable, !.searching = FALSE,
                                          !.searchQuery = <<>>]), <<>>)
    ELSE IF key = "backspace" THEN
        IF Len(m.searchQuery) > 0
        THEN Result(rebuildFiltered([m EXCEPT !.searchQuery =
                        SubSeq(m.searchQuery, 1, Len(m.searchQuery) - 1)]), <<>>)
        ELSE Result(m, <<>>)
    ELSE IF key \in OneCharKeys
    THEN Result(rebuildFiltered([m EXCEPT !.searchQuery = m.searchQuery \o <<key>>]), <<>>)
    ELSE Result(m, <<>>)

\* fmt.Sprintf("Killed %s (PID %d) on port %d", ...) and the "Force killed"
\* form: the words and the three values
KillText(msg) ==
    <<IF msg.forced THEN "Force killed" ELSE "Killed", msg.process, msg.pid, msg.port>>

\* Update, case tickMsg
UpdateTickIgnoresPause(m) ==
    IF m.currentView = viewTable THEN Result(m, <<doScan, tickCmd>>) ELSE Result(m, <<tickCmd>>)

\* a tick that starts the next one only when it also scans
UpdateTickStopsWithScans(m) ==
    IF ~m.paused /\ m.currentView = viewTable
    THEN Result(m, <<doScan, tickCmd>>)
    ELSE Result(m, <<>>)

UpdateTick(m) ==
    IF ~m.paused /\ m.currentView = viewTable
    THEN Result(m, <<doScan, tickCmd>>)
    ELSE Result(m, <<tickCmd>>)

\* Update, case scanDoneMsg
UpdateScanDoneKeepsFirst(m, msg) ==
    IF msg.err = "none" /\ m.entries = <<>>
    THEN Result(rebuildFiltered(sortEntries([m EXCEPT !.scanning = FALSE,
                                                     !.entries = msg.entries])), <<>>)
    ELSE Result([m EXCEPT !.scanning = FALSE], <<>>)

\* a failed scan empties the table
UpdateScanDoneClearsOnError(m, msg) ==
    IF msg.err = "none"
    THEN Result(rebuildFiltered(sortEntries([m EXCEPT !.scanning = FALSE,
                                                     !.entries = msg.entries])), <<>>)
    ELSE Result(rebuildFiltered([m EXCEPT !.scanning = FALSE, !.entries = <<>>]), <<>>)

UpdateScanDone(m, msg) ==
    IF msg.err = "none"
    THEN Result(rebuildFiltered(sortEntries([m EXCEPT !.scanning = FALSE,
                                                     !.entries = msg.entries])), <<>>)
    ELSE Result([m EXCEPT !.scanning = FALSE], <<>>)

\* Update, case killDoneMsg
UpdateKillDone(m, msg) ==
    Result([m EXCEPT !.killErr = msg.err,
                     !.killResult = IF msg.err = "none" THEN KillText(msg)
                                    ELSE m.killResult,
                     !.currentView = viewKillResult], <<>>)

\* Update, case infoDoneMsg
UpdateInfoDone(m, msg) ==
    Result([m EXCEPT !.infoData = msg.info, !.infoErr = msg.err,
                     !.currentView = viewInfo], <<>>)

\* Update
Update(m, msg) ==
    IF msg.type = "windowSize" THEN Result([m EXCEPT !.height = msg.height], <<>>)
    ELSE IF msg.type = "tick" THEN UpdateTick(m)
    ELSE IF msg.type = "scanDone" THEN UpdateScanDone(m, msg)
    ELSE IF msg.type = "killDone" THEN UpdateKillDone(m, msg)
    ELSE IF msg.type = "infoDone" THEN UpdateInfoDone(m, msg)
    ELSE IF msg.type = "key" THEN
        IF msg.key = "ctrl+c" THEN Quit(m)
        ELSE IF m.currentView = viewTable THEN updateTable(m, msg.key)
        ELSE IF m.currentView = viewInfo THEN updateInfo(m, msg.key)
        ELSE IF m.currentView = viewKillConfirm THEN updateKillConfirm(m, msg.key)
        ELSE IF m.currentView = viewKillResult THEN updateKillResult(m, msg.key)
        ELSE updateFilter(m, msg.key)
    ELSE Result(m, <<>>)

\* the runtime: what it has been told to run and has not completed yet, and
\* whether the program is still running
MaxPending == 2

MaxQuery == 2

\* tea.Batch(cmds...): every command of the list is started
RECURSIVE BagOf(_)
BagOf(cmds) == IF cmds = <<>> THEN EmptyBag ELSE SetToBag({cmds[1]}) (+) BagOf(Tail(cmds))

\* one message goes through Update; done is the command whose completion the
\* message is (none for a key, a tick, a window size)
Deliver(msg, done) ==
    /\ program.running
    /\ \E r \in {Update(model, msg)} :
          \E left \in {(program.pending (-) done) (+) BagOf(r.cmds)} :
             /\ BagCardinality(left) - CopiesIn(tickCmd, left) <= MaxPending
             /\ CopiesIn(tickCmd, left) <= MaxPending
             /\ model' = r.m
             /\ program' = [pending |-> left, running |-> ~r.quit]
        /\ UNCHANGED <<diffVars, histVars, raceVars, killVars, parseVars, infoVars, watchVars>>

\* tea.KeyMsg
KeyMsg(key) ==
    /\ (model.currentView = viewFilter /\ key \in OneCharKeys) =>
            Len(model.searchQuery) < MaxQuery
    /\ Deliver([type |-> "key", key |-> key], EmptyBag)

\* tickMsg: a tick that was started fires
TickMsg ==
    /\ BagIn(tickCmd, program.pending)
    /\ Deliver([type |-> "tick"], SetToBag({tickCmd}))

\* tea.WindowSizeMsg
WindowSizeMsg(height) ==
    /\ model.height # height
    /\ Deliver([type |-> "windowSize", height |-> height], EmptyBag)

\* scanDoneMsg: a scan that was issued returns entries, or an error
ScanDoneMsg(entries, err) ==
    /\ BagIn(doScan, program.pending)
    /\ Deliver([type |-> "scanDone", entries |-> entries, err |-> err], SetToBag({doScan}))

\* killDoneMsg: the function doKill returned ends with ForceKill's error, with
\* GracefulKill's error, with "did not exit", or with no error
KillErrors(force) ==
    IF force THEN {"none", "kill failed"}
    ELSE {"none", "kill failed", "process did not exit after SIGTERM (still running)"}

KillDoneMsg(cmd, err) ==
    /\ BagIn(cmd, program.pending)
    /\ cmd.op = "kill"
    /\ err \in KillErrors(cmd.force)
    /\ Deliver([type |-> "killDone", pid |-> cmd.pid, process |-> cmd.process,
                port |-> cmd.port, err |-> err, forced |-> cmd.force],
               SetToBag({cmd}))

\* infoDoneMsg: manager.Info returned a *ProcessInfo or an error
InfoDoneMsg(cmd, err) ==
    /\ BagIn(cmd, program.pending)
    /\ cmd.op = "info"
    /\ Deliver([type |-> "infoDone",
                info |-> IF err = "none" THEN Some([PID |-> cmd.pid]) ELSE Nil,
                err |-> err],
               SetToBag({cmd}))

\* New and Init: the first scan is issued and the first tick started
InitTui ==
    /\ model = New
    /\ program = [pending |-> SetToBag({doScan, tickCmd}), running |-> TRUE]
    /\ DiffIdle /\ HistIdle /\ RaceIdle /\ KillIdle /\ ParseIdle /\ InfoIdle /\ WatchIdle

\* every command that can be under way
Commands ==
    {doScan} \cup {doGetInfo(e.PID) : e \in TableEntries}
        \cup {doKill(e.PID, e.Process, e.Port, force) : e \in TableEntries, force \in BOOLEAN}

InfoErrors == {"none", "process not found"}

\* ---- the views: every key that changes the view, every completion ----
ViewKeys == {"q", "K", "i", "r", "p", "/", "esc", "enter", "y", "f", "n"}

\* the keys pressed in the filter view when the views are explored
FilterViewKeys == {"esc", "enter"}

ViewPayloads == {<<>>, <<EntryNg80>>}

NextView ==
    \/ \E key \in ViewKeys :
          /\ model.currentView = viewFilter => key \in FilterViewKeys
          /\ KeyMsg(key)
    \/ TickMsg
    \/ \E entries \in ViewPayloads : ScanDoneMsg(entries, "none")
    \/ ScanDoneMsg(<<>>, "failed to run lsof")
    \/ \E cmd \in Commands, err \in KillErrors(FALSE) : KillDoneMsg(cmd, err)
    \/ \E cmd \in Commands, err \in InfoErrors : InfoDoneMsg(cmd, err)

SpecView == InitTui /\ [][NextView]_vars

\* ---- the table: scans, sorting, filtering, the cursor ----
TableKeys == {"j", "k", "s", "/", "esc", "enter", "backspace", "X", "4"}

\* terminal heights: two visible rows (the Model starts with height 0, which
\* gives one)
Heights == {9}

\* what a scan returns, in lsof's order: nothing, one entry, the two ports of
\* one process, all three entries
TablePayloads ==
    {<<>>, <<EntryXo>>, <<EntryNg443, EntryNg80>>, <<EntryNg443, EntryXo, EntryNg80>>}

\* the keys pressed in the filter view when the table is explored: two
\* characters to type, and the keys that edit and leave
FilterKeys == {"X", "4", "esc", "enter", "backspace"}

NextTable ==
    \/ \E key \in TableKeys :
          /\ model.currentView = viewFilter => key \in FilterKeys
          /\ KeyMsg(key)
    \/ TickMsg
    \/ \E height \in Heights : WindowSizeMsg(height)
    \/ \E entries \in TablePayloads : ScanDoneMsg(entries, "none")
    \/ ScanDoneMsg(<<>>, "failed to run lsof")

SpecTable == InitTui /\ [][NextTable]_vars

-----------------------------------------------------------------------------
(* Properties of the dashboard (SpecView, SpecTable) *)

\* the key msg of a key
Key(key) == [type |-> "key", key |-> key]

\* the commands a step added to those under way, none completing
Issued(cmds) == program'.pending = program.pending (+) BagOf(cmds)

\* C22: every change of the current view follows the table: Info is entered
\* only from Table, KillResult only from KillConfirm, KillConfirm only from
\* Table or Info, Filter only from Table.
C22_ViewChangesFollowTable ==
    [][model'.currentView # model.currentView =>
          /\ model'.currentView = viewInfo => model.currentView = viewTable
          /\ model'.currentView = viewKillResult => model.currentView = viewKillConfirm
          /\ model'.currentView = viewKillConfirm =>
                model.currentView \in {viewTable, viewInfo}
          /\ model'.currentView = viewFilter => model.currentView = viewTable]_vars

\* C23: the inspect key on a selected row of the table shows the Info view and
\* issues one fetch for the PID of the row, in the same step; y or f in the
\* confirmation shows the KillResult view and issues one kill for the PID of
\* the remembered entry, in the same step.
C23_TriggerChangesViewAtOnce ==
    [][/\ \A key \in {"i", "enter"} :
            (/\ model.currentView = viewTable
             /\ selectedEntry(model) # Nil
             /\ KeyMsg(key))
            => /\ model'.currentView = viewInfo
               /\ Issued(<<doGetInfo(selectedEntry(model)[1].PID)>>)
       /\ \A key \in {"y", "f"} :
            (/\ model.currentView = viewKillConfirm
             /\ model.killEntry # Nil
             /\ KeyMsg(key))
            => /\ model'.currentView = viewKillResult
               /\ Issued(<<doKill(model.killEntry[1].PID, model.killEntry[1].Process,
                                  model.killEntry[1].Port, key = "f")>>)]_vars

\* C24: esc, enter or backspace in the KillResult view shows the table, forgets
\* the kill entry, the result text and the kill error, and issues one scan,
\* paused or not.
C24_AcknowledgeRescans ==
    [][\A key \in {"esc", "enter", "backspace"} :
          (model.currentView = viewKillResult /\ KeyMsg(key))
          => /\ model'.currentView = viewTable
             /\ model'.killEntry = Nil
             /\ model'.killResult = <<>>
             /\ model'.killErr = "none"
             /\ Issued(<<doScan>>)]_vars

\* a kill has ended while refresh is paused: its result is on the screen and
\* no scan is under way
C24_Witness ==
    /\ model # <<>>
    /\ model.currentView = viewKillResult
    /\ model.paused
    /\ model.killResult # <<>>
    /\ ~BagIn(doScan, program.pending)

\* the indices of all entries
AllIndices(entries) == [i \in DOMAIN entries |-> i - 1]

AllKeys == ViewKeys \cup TableKeys \cup {"ctrl+c", "down", "up", "N"}

\* C26: a tick issues a scan exactly when the view is Table and refresh is not
\* paused, and changes nothing else; p changes the paused flag only; r in the
\* table issues a scan paused or not; and every other key does to a paused
\* dashboard what it does to a running one.
C26_PauseStopsOnlyTicks ==
    /\ [](model # <<>> =>
            \A key \in AllKeys \ {"p"} :
               LET there == Update(model, Key(key))
                   other == Update([model EXCEPT !.paused = ~model.paused], Key(key))
               IN  /\ there.cmds = other.cmds
                   /\ there.quit = other.quit
                   /\ there.m = [other.m EXCEPT !.paused = model.paused])
    /\ [][/\ TickMsg =>
                /\ model' = model
                /\ IF model.currentView = viewTable /\ ~model.paused
                   THEN Issued(<<doScan>>) ELSE Issued(<<>>)
          /\ (model.currentView = viewTable /\ KeyMsg("p")) =>
                /\ model' = [model EXCEPT !.paused = ~model.paused]
                /\ Issued(<<>>)
          /\ (model.currentView = viewTable /\ KeyMsg("r")) => Issued(<<doScan>>)]_vars

\* the table is shown, refresh is paused, entries are held and no scan is
\* under way: a tick changes nothing here, r issues a scan
C26_Witness ==
    /\ model # <<>>
    /\ model.currentView = viewTable
    /\ model.paused
    /\ model.entries # <<>>
    /\ program.running
    /\ program.pending = SetToBag({tickCmd})

\* C27: the filtered list is always the ascending list of the indices of the
\* entries that match the filter text (all indices when the text is empty).
C27_FilteredMatchesQuery ==
    model # <<>> =>
        model.filtered = MatchingIndices(model.entries, ToLower(model.searchQuery), 1)

\* the messages that make Update compute the filtered list anew in model m
RecomputeMsgs(m) ==
    {[type |-> "scanDone", entries |-> entries, err |-> "none"] : entries \in TablePayloads}
    \cup (IF m.currentView = viewTable
          THEN {Key("s")} \cup (IF m.searchQuery # <<>> THEN {Key("esc")} ELSE {})
          ELSE {})
    \cup (IF m.currentView = viewFilter
          THEN {Key(key) : key \in {"X", "4", "esc", "enter"}}
                  \cup (IF m.searchQuery # <<>> THEN {Key("backspace")} ELSE {})
          ELSE {})

\* C28: 0 <= scrollOffset <= cursor <= max(0, len(filtered) - 1), every index
\* in filtered is an index of an entry, and right after the filtered list was
\* computed anew (by whichever message does that to the model of a reachable
\* state) scrollOffset <= max(0, len(filtered) - visibleRows).
C28_CursorInsideList ==
    model # <<>> =>
        /\ 0 <= model.scrollOffset
        /\ model.scrollOffset <= model.cursor
        /\ model.cursor <= Max(0, Len(model.filtered) - 1)
        /\ \A i \in DOMAIN model.filtered :
              model.filtered[i] >= 0 /\ model.filtered[i] < Len(model.entries)
        /\ \A msg \in RecomputeMsgs(model) :
              \A after \in {Update(model, msg).m} :
                 after.scrollOffset <= Max(0, Len(after.filtered) - visibleRows(after))

\* the cursor is on the last of three rows, scrolled, and a scan is under way
\* whose result can be shorter
C28_Witness ==
    /\ model # <<>>
    /\ Len(model.filtered) = 3
    /\ model.cursor = 2
    /\ model.scrollOffset > 0
    /\ BagIn(doScan, program.pending)

\* entries are in non-decreasing order of the key
InOrder(entries, sortBy) ==
    \A i, j \in DOMAIN entries :
        i < j =>
            IF sortBy = sortByPID THEN entries[i].PID <= entries[j].PID
            ELSE IF sortBy = sortByProcess
            THEN ~TextLess(ToLower(entries[j].Process), ToLower(entries[i].Process))
            ELSE entries[i].Port <= entries[j].Port

\* C29: s moves the sort key from port to PID to process name to port, and the
\* entries are always in non-decreasing order of the current key, names
\* compared without regard to case.
C29_EntriesSortedByKey ==
    /\ [](model # <<>> => InOrder(model.entries, model.sortBy))
    /\ [][(model.currentView = viewTable /\ KeyMsg("s")) =>
             /\ model'.sortBy = (model.sortBy + 1) % 3
             /\ model.sortBy = sortByPort => model'.sortBy = sortByPID
             /\ model.sortBy = sortByPID => model'.sortBy = sortByProcess
             /\ model.sortBy = sortByProcess => model'.sortBy = sortByPort]_vars

\* sorted by process name: the two ng rows, in the order they had, before Xo
C29_Witness ==
    /\ model # <<>>
    /\ model.sortBy = sortByProcess
    /\ model.entries = <<EntryNg443, EntryNg80, EntryXo>>

\* a step that completes a scan: one scan fewer is under way
ScanCompleted ==
    CopiesIn(doScan, program'.pending) < CopiesIn(doScan, program.pending)

\* C30: with several scans under way, the result that is processed replaces
\* the entries by its payload, sorted by the current key, and the filtered
\* list is computed from it, whichever scan it came from; a result that is an
\* error leaves the entries as they are.
C30_LastResultWins ==
    [][/\ \A entries \in TablePayloads :
            (ScanCompleted /\ ScanDoneMsg(entries, "none")) =>
               /\ model'.entries = SliceStable(entries, model.sortBy)
               /\ model'.filtered =
                      MatchingIndices(model'.entries, ToLower(model.searchQuery), 1)
       /\ (ScanCompleted /\ ScanDoneMsg(<<>>, "failed to run lsof")) =>
               /\ model'.entries = model.entries
               /\ model'.filtered = model.filtered]_vars

\* two scans are under way while the entries of an earlier result are held
C30_Witness ==
    /\ model # <<>>
    /\ CopiesIn(doScan, program.pending) = 2
    /\ Len(model.entries) = 3

\* C31: when a scan, a kill or a fetch ends with an error, the dashboard keeps
\* running and shows a view that holds that error.
C31_ErrorIsDisplayed ==
    [][/\ (ScanCompleted /\ ScanDoneMsg(<<>>, "failed to run lsof")) =>
             /\ program'.running
             /\ \/ model'.currentView = viewKillResult /\ model'.killErr = "failed to run lsof"
                \/ model'.currentView = viewInfo /\ model'.infoErr = "failed to run lsof"
       /\ \A cmd \in Commands :
             \A err \in (KillErrors(FALSE) \cup InfoErrors) \ {"none"} :
                (BagIn(cmd, program.pending) /\ (KillDoneMsg(cmd, err) \/ InfoDoneMsg(cmd, err))) =>
                   /\ program'.running
                   /\ \/ model'.currentView = viewKillResult /\ model'.killErr = err
                      \/ model'.currentView = viewInfo /\ model'.infoErr = err]_vars

-----------------------------------------------------------------------------
(* cmd: watch --alert (runWatchAlert) *)

\* ticks of the watch loop that are followed
MaxTicks == 2

\* the listeners the scans of a watch report: port 53 held by one process or
\* by another, and two sockets on port 80
WatchEntries ==
    {PortEntry(53, "TCP", [PID |-> 100, Process |-> "nginx", User |-> "root"]),
     PortEntry(53, "TCP", [PID |-> 200, Process |-> "node", User |-> "zhengda"]),
     PortEntry(80, "TCP", [PID |-> 100, Process |-> "nginx", User |-> "root"]),
     PortEntry(80, "UDP", [PID |-> 100, Process |-> "nginx", User |-> "root"])}

WatchScans == SeqsUpTo(WatchEntries, MaxLen)

\* --port, --proto and --json as given on the command line (--process is
\* left empty)
WatchFlags == [filterPort : {0, 80}, filterProto : {"", "udp"}, jsonOutput : BOOLEAN]

\* strings.ToUpper over the values --proto is given
UpperProto(s) == IF s = "tcp" THEN "TCP" ELSE IF s = "udp" THEN "UDP" ELSE s

filterEntries(entries, flags) ==
    SelectSeq(entries,
              LAMBDA e : /\ ~(flags.filterPort > 0 /\ e.Port # flags.filterPort)
                         /\ ~(flags.filterProto # "" /\ e.Protocol # UpperProto(flags.filterProto)))

\* fmt.Sprintf("%d/%s", e.Port, e.Protocol): the port in decimal, a slash,
\* the protocol name
portKeyStr(e) == Itoa(e.Port) \o <<"/">> \o <<e.Protocol>>

makePortKeySet(entries) == {portKeyStr(entries[i]) : i \in DOMAIN entries}

\* a comparison on the port number alone
findNewEntriesByPort(current, baseline) ==
    SelectSeq(current,
              LAMBDA e : \A k \in baseline : SubSeq(k, 1, Len(k) - 1) # Itoa(e.Port) \o <<"/">>)

findNewEntries(current, baseline) ==
    SelectSeq(current, LAMBDA e : portKeyStr(e) \notin baseline)

\* (&alertExitError{count}).Error() without the count, and the other errors
\* runWatchAlert returns
ErrAlert == "alert: new port listener(s) detected"
ErrEncode == "failed to encode alert JSON"
ErrScan == "failed to scan ports"

\* printAlertJSON: the encoder's error when standard output took the
\* document not, the alert error otherwise
printAlertJSON(entries, written) == IF written THEN ErrAlert ELSE ErrEncode

\* printAlertHuman: what Printf and Flush return is not looked at
printAlertHuman(entries) == ErrAlert

InitWatch ==
    /\ watch \in {[pc |-> "baseline", flags |-> f, baselineKeys |-> {}, ticks |-> 0,
                   current |-> <<>>, failed |-> FALSE, err |-> "none", count |-> 0] :
                     f \in WatchFlags}
    /\ DiffIdle /\ HistIdle /\ RaceIdle /\ KillIdle /\ ParseIdle /\ InfoIdle /\ TuiIdle

\* the baseline scan succeeds
WatchBaseline(entries) ==
    /\ watch.pc = "baseline"
    /\ watch' = [watch EXCEPT !.pc = "loop",
                              !.baselineKeys = makePortKeySet(filterEntries(entries, watch.flags))]
    /\ UNCHANGED <<diffVars, histVars, raceVars, killVars, parseVars, infoVars, tuiVars>>

\* the baseline scan fails: return err
WatchBaselineFails ==
    /\ watch.pc = "baseline"
    /\ watch' = [watch EXCEPT !.pc = "returned", !.failed = TRUE, !.err = ErrScan]
    /\ UNCHANGED <<diffVars, histVars, raceVars, killVars, parseVars, infoVars, tuiVars>>

\* case <-ticker.C with a scan that succeeds
WatchTick(entries, written) ==
    /\ watch.pc = "loop"
    /\ watch.ticks < MaxTicks
    /\ LET current == filterEntries(entries, watch.flags)
           newEntries == findNewEntries(current, watch.baselineKeys)
       IN  watch' = IF Len(newEntries) > 0
                    THEN [watch EXCEPT !.pc = "returned",
                                       !.ticks = @ + 1,
                                       !.current = current,
                                       !.failed = FALSE,
                                       !.err = IF watch.flags.jsonOutput
                                               THEN printAlertJSON(newEntries, written)
                                               ELSE printAlertHuman(newEntries),
                                       !.count = Len(newEntries)]
                    ELSE [watch EXCEPT !.ticks = @ + 1, !.current = current, !.failed = FALSE]
    /\ UNCHANGED <<diffVars, histVars, raceVars, killVars, parseVars, infoVars, tuiVars>>

\* case <-ticker.C with a scan that fails: the error goes to standard error
\* and the loop goes on
WatchTickFails ==
    /\ watch.pc = "loop"
    /\ watch.ticks < MaxTicks
    /\ watch' = [watch EXCEPT !.ticks = @ + 1, !.current = <<>>, !.failed = TRUE]
    /\ UNCHANGED <<diffVars, histVars, raceVars, killVars, parseVars, infoVars, tuiVars>>

\* case <-ctx.Done(): the interrupt signal came; return nil
WatchInterrupt ==
    /\ watch.pc = "loop"
    /\ watch' = [watch EXCEPT !.pc = "returned"]
    /\ UNCHANGED <<diffVars, histVars, raceVars, killVars, parseVars, infoVars, tuiVars>>

NextWatch ==
    \/ \E entries \in WatchScans : WatchBaseline(entries)
    \/ WatchBaselineFails
    \/ \E entries \in WatchScans : \E written \in BOOLEAN : WatchTick(entries, written)
    \/ WatchTickFails
    \/ WatchInterrupt

SpecWatch == InitWatch /\ [][NextWatch]_vars

\* the scan of the tick just taken succeeded and holds an entry whose key the
\* baseline lacks
NewKeySeen ==
    /\ ~watch'.failed
    /\ \E i \in DOMAIN watch'.current :
          portKeyStr(watch'.current[i]) \notin watch.baselineKeys

-----------------------------------------------------------------------------
(* Diff called twice on the same arguments *)

\* C33: two calls of Diff with the same previous snapshot, current entries
\* and timestamp return the same events in the same order: the list a call
\* returned is the only list a call on these arguments can return.
C33_DiffDeterministic ==
    dDone => \A other \in Diff(dPrev, dCur, dTs) : other = dOut

\* the kill commands under way, each as often as it was issued
KillsUnderWay ==
    {<<cmd, n>> \in BagToSet(program.pending) \X (1..MaxPending) :
        cmd.op = "kill" /\ n <= CopiesIn(cmd, program.pending)}

\* C34: at most one kill command is under way at any time: once a kill was
\* confirmed, no other is issued before the killDoneMsg of the first has gone
\* through Update.
C34_OneKillOutstanding == Cardinality(KillsUnderWay) <= 1

\* C39: while the program runs exactly one tick is under way: Init starts
\* one, a tickMsg going through Update starts exactly one next tick in every
\* view and paused or not, and no other message starts or ends a tick.
C39_OneTickPending ==
    /\ [](program # <<>> /\ program.running => CopiesIn(tickCmd, program.pending) = 1)
    /\ [][program.running =>
             CopiesIn(tickCmd, program'.pending) = CopiesIn(tickCmd, program.pending)]_vars

\* entries are held, the table is shown and a scan is under way that no key
\* announced (the indicator is off), as after a tick that issued it: the
\* tick's successor is under way with it
C39_Witness ==
    /\ model # <<>>
    /\ model.currentView = viewTable
    /\ model.entries # <<>>
    /\ ~model.scanning
    /\ program.running
    /\ BagIn(doScan, program.pending)
    /\ BagIn(tickCmd, program.pending)

\* C40: a scanDoneMsg that carries an error changes nothing of the Model but
\* the scanning indicator, which it clears: entries, filtered list, cursor,
\* scroll offset, sort key, filter text and view stay as they were.
C40_ScanErrorKeepsDisplay ==
    [][(ScanCompleted /\ ScanDoneMsg(<<>>, "failed to run lsof")) =>
          /\ model' = [model EXCEPT !.scanning = FALSE]
          /\ model'.entries = model.entries /\ model'.filtered = model.filtered
          /\ model'.cursor = model.cursor /\ model'.scrollOffset = model.scrollOffset
          /\ model'.sortBy = model.sortBy /\ model'.searchQuery = model.searchQuery
          /\ model'.currentView = model.currentView]_vars

\* a scan is under way while the table holds several entries, sorted by
\* another key than the port, with the cursor off the first row
C40_Witness ==
    /\ model # <<>>
    /\ Len(model.entries) > 1
    /\ model.sortBy # sortByPort
    /\ model.cursor > 0
    /\ program.running
    /\ BagIn(doScan, program.pending)

-----------------------------------------------------------------------------
(* The dashboard with two processes in the table: what Info and            *)
(* KillConfirm remember (SpecTarget)                                       *)

TargetKeys == {"i", "j", "K", "y", "f", "esc"}

\* a scan finds both processes, or only the second
TargetPayloads == {<<EntryNg80, EntryXo>>, <<EntryXo>>}

NextTarget ==
    \/ \E key \in TargetKeys : KeyMsg(key)
    \/ TickMsg
    \/ \E entries \in TargetPayloads : ScanDoneMsg(entries, "none")
    \/ \E cmd \in Commands, err \in KillErrors(FALSE) : KillDoneMsg(cmd, err)
    \/ \E cmd \in Commands, err \in InfoErrors : InfoDoneMsg(cmd, err)

SpecTarget == InitTui /\ [][NextTarget]_vars

\* C35: whenever the Info view is shown with detail data, the data is that of
\* the remembered entry: the PID of the fetched profile is the PID of
\* infoEntry.
C35_InfoDataOfRememberedEntry ==
    (model # <<>> /\ model.currentView = viewInfo /\ model.infoData # Nil) =>
        /\ model.infoEntry # Nil
        /\ model.infoData[1].PID = model.infoEntry[1].PID

\* C37: KillConfirm remembers the row that was selected when it was entered
\* (from Info: the entry Info remembered); no message processed while
\* KillConfirm is shown, a scan result included, changes what is remembered;
\* and y and f pass the PID, process name and port of the remembered row to
\* the kill operation.
C37_KillTargetRemembered ==
    [][/\ (model.currentView = viewTable /\ model'.currentView = viewKillConfirm) =>
             model'.killEntry # Nil /\ model'.killEntry = selectedEntry(model)
       /\ (model.currentView = viewInfo /\ model'.currentView = viewKillConfirm) =>
             model'.killEntry # Nil /\ model'.killEntry = model.infoEntry
       /\ (model.currentView = viewKillConfirm /\ model'.currentView = viewKillConfirm) =>
             model'.killEntry = model.killEntry
       /\ \A key \in {"y", "f"} :
             (model.currentView = viewKillConfirm /\ KeyMsg(key)) =>
                Issued(<<doKill(model.killEntry[1].PID, model.killEntry[1].Process,
                                model.killEntry[1].Port, key = "f")>>)]_vars

\* KillConfirm was entered on the first process, a scan that no longer finds
\* it was processed, and the kill confirmed then is under way for it
C37_Witness ==
    /\ model # <<>>
    /\ model.currentView = viewKillConfirm
    /\ model.killEntry = Some(EntryNg80)
    /\ model.entries = <<EntryXo>>
    /\ \E force \in BOOLEAN :
          BagIn(doKill(EntryNg80.PID, EntryNg80.Process, EntryNg80.Port, force), program.pending)

-----------------------------------------------------------------------------
(* Kill and the PIDs that do not name one process *)

\* C38: a call of Kill, GracefulKill or ForceKill hands a probe or a signal
\* to kill(2) only for a PID greater than 1: for PID 0, PID 1 and every
\* negative PID it returns the refusal without a probe and without a signal.
C38_OnlyPidsAboveOne ==
    /\ (mgr.op # "none" /\ mgr.pid <= 1) =>
          /\ mgr.probes = 0
          /\ mgr.signals = 0
          /\ (mgr.pc = "ret" => mgr.err = "protected")
    /\ \A k \in DOMAIN sent : sent[k].pid > 1

-----------------------------------------------------------------------------
(* Record and clear, one after the other, from an absent file (SpecLog)    *)

NextLog ==
    \/ \E entries \in RecordInputs : RecordOk(entries)
    \/ \E entries \in RecordInputs : RecordSaveFails(entries)
    \/ HistoryClear

SpecLog == InitRecord /\ [][NextLog]_vars

\* the (port, protocol) keys the scans can report
HistKeys == {<<e.Port, e.Protocol>> : e \in HistEntries}

\* the persisted events of one key, in log order
LoggedFor(k) == SelectSeq(PersistedEvents, LAMBDA e : <<e.Port, e.Protocol>> = k)

\* the keys of the persisted snapshot
SnapshotKeys ==
    IF PersistedSnapshot = Nil THEN {}
    ELSE {<<PersistedSnapshot[1].Entries[i].Port, PersistedSnapshot[1].Entries[i].Protocol>> :
             i \in DOMAIN PersistedSnapshot[1].Entries}

\* C36: in the persisted log the events of each key alternate open, close,
\* open, ... and begin with open, and a key is in the persisted snapshot
\* exactly when its last logged event is an open.
C36_LogAlternates ==
    \A k \in HistKeys :
        \A es \in {LoggedFor(k)} :
            /\ \A i \in DOMAIN es : es[i].Type = IF i % 2 = 1 THEN EventOpen ELSE EventClose
            /\ k \in SnapshotKeys <=> (es # <<>> /\ es[Len(es)].Type = EventOpen)

\* the first call logged events, a clear removed them, and a key was opened
\* and closed by the two calls after the clear
C36_Witness ==
    /\ Len(calls) = 3
    /\ calls[1].entries # <<>>
    /\ \A i \in DOMAIN PersistedEvents : PersistedEvents[i].Timestamp # calls[1].ts
    /\ \E k \in HistKeys : Len(LoggedFor(k)) = 2

=============================================================================
